---- MODULE Spec2Model ----
(***************************************************************************)
(* A model of the NextDNS webhook provider for external-dns: the retry     *)
(* policy and error classification of the client (retryWithBackoff,        *)
(* isRetryableError), the client calls built on it (ListRewrites,          *)
(* CreateRewrite, DeleteRewrite, FindRewriteByName, UpdateRewrite) and the *)
(* provider's operations (NewProvider, Records, ApplyChanges,              *)
(* AdjustEndpoints, createRecord, updateRecord, deleteRecord,              *)
(* parseOverwriteAnnotation), and the webhook server's Start and shutdown. *)
(*                                                                         *)
(* An operation runs as a sequence of steps: one step per attempt of a     *)
(* remote call (the context check of retryWithBackoff, the invocation and  *)
(* everything the client and the provider do with its result up to the     *)
(* next remote call) and one step per inter-attempt delay.                 *)
(***************************************************************************)
EXTENDS Integers, Sequences, FiniteSets, TLC

VARIABLES
    store,      \* the remote profile's rewrite rows, in list order
    nextId,     \* the id the remote store gives to the next created row
    cancelled,  \* ctx.Done() of the running operation's context is closed
    phase,      \* "idle" | "running" | "done"
    opName,     \* the operation that runs or has returned
    ep,         \* the operation's endpoint argument
    ti,         \* createRecord / deleteRecord: index of the target in process
    site,       \* the call site of the remote call in flight
    existing,   \* the row FindRewriteByName returned for the current target
    attempt,    \* retryWithBackoff: the loop variable attempt
    rpc,        \* retryWithBackoff: "attempt" (top of the loop) | "invoke" (past the
                \* check of the context, the operation in flight) | "wait" (in the delay)
    lastErr,    \* retryWithBackoff: lastErr
    result,     \* the error the operation returned (Nil: a nil error)
    store0,     \* history: the store when the operation was called
    calls,      \* history: every invocation of a remote call (or of the operation
                \* handed to retryWithBackoff) made by the operation, in order
    waits,      \* history: the delays (seconds) the operation waited out
    fails,      \* number of failures the environment has injected into the operation
    returned,   \* history: the results of the earlier calls of this operation
    cErr,       \* classification: the error handed to isRetryableError
    cOut,       \* classification: "none" or the value isRetryableError returned
    config,     \* the provider's configuration and whether it has a client
    changes,    \* ApplyChanges: the changeset argument
    entry,      \* ApplyChanges: the entry in process (list, index, leg of an update)
    diag,       \* the diagnostics logged about the state of a record
    applied,    \* history: the record operations ApplyChanges has called, each with
                \* the entry it was called for and the error it returned
    arg,        \* the argument of AdjustEndpoints / parseOverwriteAnnotation / NewProvider
    out,        \* what Records / AdjustEndpoints / parseOverwriteAnnotation /
                \* NewProvider / FindRewriteByName returned besides the error
    server      \* the webhook server: its fields, its goroutines and where Start stands

vars == <<store, nextId, cancelled, phase, opName, ep, ti, site, existing, attempt,
          rpc, lastErr, result, store0, calls, waits, fails, returned, cErr, cOut,
          config, changes, entry, diag, applied, arg, out, server>>

(***************************************************************************)
(* Bounds of the model.                                                    *)
(***************************************************************************)
\* rows of the remote store before the first operation
MaxRows == 2
\* targets of one endpoint
MaxTargets == 2
\* calls of one operation on one endpoint, one after the other
MaxOps == 2
\* failures the environment injects into one operation of the provider
MaxFails == 1
\* fragments an error message is put together from (classification)
MaxFrags == 2
\* entries of one changeset, over its lists
MaxEntries == 3
\* rows of the remote store before ApplyChanges or Records is called
MaxBatchRows == 1
\* endpoints handed to AdjustEndpoints in one call
MaxEndpoints == 2
\* properties of the endpoint handed to parseOverwriteAnnotation
MaxProps == 2

\* requests the health server is sent while it serves
MaxRequests == 2

\* transient failures of the remote store during one ApplyChanges
MaxTransient == 4
\* entries of the changeset applied under transient failures, over its lists
MaxTransientEntries == 2

\* entries of the changeset of one synchronization pass, over its lists
MaxSyncEntries == 2

(***************************************************************************)
(* Strings.  A string is a sequence of atoms: a decimal digit is one atom  *)
(* (so that a status code can occur inside a longer number), a word or a   *)
(* blank is one atom.                                                      *)
(***************************************************************************)
DigitChar == <<"0", "1", "2", "3", "4", "5", "6", "7", "8", "9">>

\* fmt.Sprintf("%d", code) for a three-digit code
Sprintf(code) ==
    << DigitChar[(code \div 100) + 1],
       DigitChar[((code \div 10) % 10) + 1],
       DigitChar[(code % 10) + 1] >>

\* http.StatusText(code) for the codes the client names
StatusText(code) ==
    CASE code = 400 -> <<"Bad", " ", "Request">>
      [] code = 401 -> <<"Unauthorized">>
      [] code = 403 -> <<"Forbidden">>
      [] code = 404 -> <<"Not", " ", "Found">>
      [] code = 429 -> <<"Too", " ", "Many", " ", "Requests">>
      [] code = 500 -> <<"Internal", " ", "Server", " ", "Error">>
      [] code = 502 -> <<"Bad", " ", "Gateway">>
      [] code = 503 -> <<"Service", " ", "Unavailable">>
      [] code = 504 -> <<"Gateway", " ", "Timeout">>
      [] OTHER -> <<>>

\* strings.ToLower on one atom
LowerAtom(a) ==
    CASE a = "EOF" -> "eof"
      [] a = "Timeout" -> "timeout"
      [] a = "Gateway" -> "gateway"
      [] a = "Bad" -> "bad"
      [] a = "Request" -> "request"
      [] a = "Unauthorized" -> "unauthorized"
      [] a = "Forbidden" -> "forbidden"
      [] a = "Not" -> "not"
      [] a = "Found" -> "found"
      [] a = "Too" -> "too"
      [] a = "Many" -> "many"
      [] a = "Requests" -> "requests"
      [] a = "Internal" -> "internal"
      [] a = "Server" -> "server"
      [] a = "Error" -> "error"
      [] a = "Service" -> "service"
      [] a = "Unavailable" -> "unavailable"
      [] a = "Connection" -> "connection"
      [] a = "API" -> "api"
      [] OTHER -> a

\* strings.ToLower
ToLower(s) == [i \in 1..Len(s) |-> LowerAtom(s[i])]

\* strings.Contains
Contains(s, sub) ==
    \E i \in 1..(Len(s) - Len(sub) + 1) : SubSeq(s, i, i + Len(sub) - 1) = sub

(***************************************************************************)
(* Errors.  kind "nil" is Go's nil error, "ctx" is ctx.Err() of a          *)
(* cancelled context; netTimeout says that the error value implements      *)
(* net.Error and its Timeout() is true.                                    *)
(***************************************************************************)
Nil == [kind |-> "nil", msg |-> <<>>, netTimeout |-> FALSE]

CtxErr == [kind |-> "ctx", msg |-> <<"context", " ", "canceled">>, netTimeout |-> FALSE]

\* errors.New(msg)
NewError(m) == [kind |-> "err", msg |-> m, netTimeout |-> FALSE]

\* a net.Error whose Timeout() is true
NetTimeoutError(m) == [kind |-> "err", msg |-> m, netTimeout |-> TRUE]

\* fmt.Errorf(prefix + ": %w", e): the wrapper is no net.Error itself
Wrap(prefix, e) == [kind |-> "err", msg |-> <<prefix, ":", " ">> \o e.msg, netTimeout |-> FALSE]

\* fmt.Errorf(prefix + " %s: %w", name, e)
WrapName(prefix, name, e) ==
    [kind |-> "err", msg |-> <<prefix, " ", name, ":", " ">> \o e.msg, netTimeout |-> FALSE]

retryableStatusCodes == <<429, 500, 502, 503, 504>>

nonRetryableStatusCodes == <<400, 401, 403, 404>>

networkErrorPatterns ==
    << <<"connection", " ", "refused">>,
       <<"connection", " ", "reset">>,
       <<"no", " ", "such", " ", "host">>,
       <<"temporary", " ", "failure">>,
       <<"timeout">>,
       <<"EOF">>,
       <<"broken", " ", "pipe">> >>

isRetryableError(err) ==
    IF err.kind = "nil" THEN FALSE
    ELSE IF err.netTimeout THEN TRUE
    ELSE IF \E i \in 1..Len(retryableStatusCodes) :
               \/ Contains(err.msg, Sprintf(retryableStatusCodes[i]))
               \/ Contains(err.msg, StatusText(retryableStatusCodes[i]))
         THEN TRUE
    ELSE IF \E i \in 1..Len(networkErrorPatterns) :
               Contains(ToLower(err.msg), ToLower(networkErrorPatterns[i]))
         THEN TRUE
    ELSE IF \E i \in 1..Len(nonRetryableStatusCodes) :
               \/ Contains(err.msg, Sprintf(nonRetryableStatusCodes[i]))
               \/ Contains(err.msg, StatusText(nonRetryableStatusCodes[i]))
         THEN FALSE
    ELSE FALSE

\* one retry less
maxRetryAttemptsMutantTwo == 3 - 1

maxRetryAttempts == 3

\* the delays grow by one second
retryDelaysMutantLinear == <<1, 2, 3>>

\* retryDelays, in seconds
retryDelays == <<1, 2, 4>>

(***************************************************************************)
(* Endpoints, rows and the provider's configuration.                       *)
(***************************************************************************)
overwriteAnnotationKey == "external-dns.alpha.kubernetes.io/nextdns-allow-overwrite"

\* Config.SupportedRecords as LoadConfig sets it by default
SupportedRecords == <<"A", "AAAA", "CNAME">>

\* the Unicode case folding strings.EqualFold compares under, on the strings in use
Fold(s) ==
    CASE s = "a" -> "A"
      [] s = "aaaa" -> "AAAA"
      [] s = "cname" -> "CNAME"
      [] s = "txt" -> "TXT"
      [] s = "true" -> "TRUE"
      [] s = "True" -> "TRUE"
      [] s = "false" -> "FALSE"
      [] s = "yes" -> "YES"
      [] OTHER -> s

\* strings.EqualFold
EqualFold(s, t) == Fold(s) = Fold(t)

NoRow == [ID |-> 0, Name |-> "", Type |-> "", Content |-> ""]

Names == {"a.example.com", "b.example.com"}

\* the names of the endpoints handed to the operations
EpNames == {"a.example.com"}

IPv4Targets == {"1.1.1.1", "2.2.2.2"}

HostTargets == {"h.example.net"}

TextTargets == {"heritage=external-dns"}

\* the kind the remote store files a created row under: it is not told the
\* requested kind and derives one from the content
RemoteType(content) == IF content \in IPv4Targets THEN "A" ELSE "CNAME"

SeqsUpTo(S, n) == UNION {[1..k -> S] : k \in 0..n}

\* endpoint.ProviderSpecific values: no marker, an authorizing marker, a
\* marker with another value
ProviderSpecifics ==
    { <<>>,
      << [Name |-> overwriteAnnotationKey, Value |-> "true"] >>,
      << [Name |-> overwriteAnnotationKey, Value |-> "false"] >> }

\* endpoints as external-dns hands them over: the kind of a record agrees
\* with the shape of its targets
EndpointsOf(kind, targets, props) ==
    [DNSName : EpNames, RecordType : {kind}, Targets : SeqsUpTo(targets, MaxTargets),
     ProviderSpecific : props]

Endpoints ==
    EndpointsOf("A", IPv4Targets, ProviderSpecifics)
        \cup EndpointsOf("CNAME", HostTargets, ProviderSpecifics)
        \cup EndpointsOf("TXT", TextTargets, {<<>>})

\* address records whose kind is written in lower case
LowerCaseEndpoints == EndpointsOf("a", IPv4Targets, ProviderSpecifics)

NoEndpoint == [DNSName |-> "", RecordType |-> "", Targets |-> <<>>, ProviderSpecific |-> <<>>]

\* a nil *endpoint.Endpoint
NilEndpoint == [DNSName |-> "nil", RecordType |-> "", Targets |-> <<>>, ProviderSpecific |-> <<>>]

\* the provider as NewProvider builds it by default: not a dry run, a client,
\* no domain filter
DefaultConfig == [DryRun |-> FALSE, Client |-> TRUE, DomainFilter |-> <<>>]

\* a plan.Changes without entries
NoChanges == [Create |-> <<>>, UpdateOld |-> <<>>, UpdateNew |-> <<>>, Delete |-> <<>>]

NoEntry == [list |-> "none", i |-> 0, leg |-> "none"]

\* nothing has been returned
NoOutput == [kind |-> "none", eps |-> <<>>]

\* a nil slice of endpoints
NilEndpoints == [kind |-> "nil", eps |-> <<>>]

\* a slice of endpoints that is not nil
Slice(eps) == [kind |-> "slice", eps |-> eps]

\* the rows the remote store can hold before the first call
InitRows ==
    {[ID |-> 0, Name |-> n, Type |-> RemoteType(c), Content |-> c] :
        n \in EpNames, c \in IPv4Targets \cup HostTargets}
    \cup {[ID |-> 0, Name |-> n, Type |-> "A", Content |-> "1.1.1.1"] : n \in Names \ EpNames}

\* the stores before the first call: up to MaxRows rows, ids 1, 2, ...
InitStores ==
    {[i \in 1..Len(s) |-> [s[i] EXCEPT !.ID = i]] : s \in SeqsUpTo(InitRows, MaxRows)}

\* the endpoints of the changesets: a record with one target, the record with
\* another target and the overwrite annotation, the record with two targets
BatchEndpoints ==
    { [DNSName |-> "a.example.com", RecordType |-> "A", Targets |-> <<"1.1.1.1">>,
       ProviderSpecific |-> <<>>],
      [DNSName |-> "a.example.com", RecordType |-> "A", Targets |-> <<"2.2.2.2">>,
       ProviderSpecific |-> << [Name |-> overwriteAnnotationKey, Value |-> "true"] >>],
      [DNSName |-> "a.example.com", RecordType |-> "A", Targets |-> <<"2.2.2.2", "1.1.1.1">>,
       ProviderSpecific |-> <<>>] }

\* an update keeps the name and the kind of its record and changes the rest
UpdatePairs ==
    {pr \in BatchEndpoints \X BatchEndpoints :
        pr[1].DNSName = pr[2].DNSName /\ pr[1].RecordType = pr[2].RecordType /\ pr[1] # pr[2]}

\* the changesets: UpdateOld and UpdateNew are as long as each other
ChangeSets ==
    UNION { { [Create |-> c,
               UpdateOld |-> [i \in 1..Len(u) |-> u[i][1]],
               UpdateNew |-> [i \in 1..Len(u) |-> u[i][2]],
               Delete |-> d] :
                 c \in [1..n[1] -> BatchEndpoints],
                 u \in [1..n[2] -> UpdatePairs],
                 d \in [1..n[3] -> BatchEndpoints] } :
            n \in {m \in (0..MaxEntries) \X (0..MaxEntries) \X (0..MaxEntries) :
                      m[1] + m[2] + m[3] <= MaxEntries} }

\* the stores before ApplyChanges or Records is called
BatchStores ==
    {[i \in 1..Len(s) |-> [s[i] EXCEPT !.ID = i]] : s \in SeqsUpTo(InitRows, MaxBatchRows)}

\* the texts of the ownership records of the orchestrator
SyncTexts == {"heritage=external-dns", "heritage=external-dns,external-dns/owner=default"}

\* the endpoints of the changesets of a synchronization pass: address records
\* of two names, with and without the overwrite annotation, and ownership
\* records
SyncEndpoints ==
    [DNSName : Names, RecordType : {"A"}, Targets : {<<t>> : t \in IPv4Targets},
     ProviderSpecific : { <<>>, << [Name |-> overwriteAnnotationKey, Value |-> "true"] >> }]
        \cup [DNSName : EpNames, RecordType : {"TXT"}, Targets : {<<t>> : t \in SyncTexts},
              ProviderSpecific : {<<>>}]

SyncPairs ==
    {pr \in SyncEndpoints \X SyncEndpoints :
        pr[1].DNSName = pr[2].DNSName /\ pr[1].RecordType = pr[2].RecordType /\ pr[1] # pr[2]}

\* the changesets of a synchronization pass
SyncChangeSets ==
    UNION { { [Create |-> c,
               UpdateOld |-> [i \in 1..Len(u) |-> u[i][1]],
               UpdateNew |-> [i \in 1..Len(u) |-> u[i][2]],
               Delete |-> d] :
                 c \in [1..n[1] -> SyncEndpoints],
                 u \in [1..n[2] -> SyncPairs],
                 d \in [1..n[3] -> SyncEndpoints] } :
            n \in {m \in (0..MaxSyncEntries) \X (0..MaxSyncEntries) \X (0..MaxSyncEntries) :
                      m[1] + m[2] + m[3] <= MaxSyncEntries} }

\* the changesets applied under transient failures
TransientChangeSets ==
    {ch \in ChangeSets :
        Len(ch.Create) + Len(ch.UpdateOld) + Len(ch.Delete) <= MaxTransientEntries}

\* the provider with and without dry run, with and without a client
Configs == [DryRun : BOOLEAN, Client : BOOLEAN, DomainFilter : {<<>>}]

\* a nil *Config
NilConfig == [APIKey |-> "nil", ProfileID |-> "nil", BaseURL |-> "nil", DryRun |-> FALSE]

\* the base URLs of a Config: none, the default, a custom one, one that does
\* not parse as a URL
BaseURLs == {"", "https://api.nextdns.io", "https://nextdns.example.org", "%zz"}

\* the arguments of NewProvider
ConfigArgs ==
    {NilConfig}
        \cup [APIKey : {"", "test-api-key"}, ProfileID : {"", "test-profile"},
              BaseURL : BaseURLs, DryRun : BOOLEAN]

\* a nil *Provider
NilProvider == [kind |-> "nil", eps |-> <<>>]

\* the provider NewProvider builds: the config it was given and a client
ProviderOf(cfg) == [kind |-> "provider", eps |-> <<>>, config |-> cfg, client |-> TRUE]

\* nextdns.New: the SDK takes every option but a custom base URL that does
\* not parse
SdkNew(baseURL) ==
    IF baseURL # "" /\ baseURL # "https://api.nextdns.io" /\ baseURL = "%zz"
    THEN NewError(<<"parse", " ", "%zz", ":", " ", "invalid", " ", "URL", " ", "escape">>)
    ELSE Nil

\* the error of NewClient
NewClient(apiKey, profileID, baseURL) ==
    IF apiKey = "" THEN NewError(<<"API", " ", "key", " ", "cannot", " ", "be", " ", "empty">>)
    ELSE IF profileID = ""
         THEN NewError(<<"profile", " ", "ID", " ", "cannot", " ", "be", " ", "empty">>)
    ELSE IF SdkNew(baseURL) # Nil
         THEN Wrap("failed to create NextDNS client", SdkNew(baseURL))
    ELSE Nil

\* every kind is taken for supported
isSupportedRecordTypeMutantAll(recordType) == TRUE

isSupportedRecordType(recordType) ==
    \E i \in 1..Len(SupportedRecords) : EqualFold(recordType, SupportedRecords[i])

\* strings.HasSuffix, on names written as sequences of atoms
HasSuffix(s, suffix) ==
    Len(s) >= Len(suffix) /\ SubSeq(s, Len(s) - Len(suffix) + 1, Len(s)) = suffix

\* strings.TrimPrefix
TrimPrefix(s, prefix) ==
    IF Len(s) >= Len(prefix) /\ SubSeq(s, 1, Len(prefix)) = prefix
    THEN SubSeq(s, Len(prefix) + 1, Len(s))
    ELSE s

\* a name matches a domain only as its suffix
matchesDomainFilterMutantSuffixOnly(filter, dnsName) ==
    \E i \in 1..Len(filter) : HasSuffix(dnsName, filter[i])

\* matchesDomainFilter, filter being config.DomainFilter
matchesDomainFilter(filter, dnsName) ==
    \E i \in 1..Len(filter) :
        HasSuffix(dnsName, filter[i]) \/ dnsName = TrimPrefix(filter[i], <<".">>)

\* the endpoints AdjustEndpoints returns (its error is nil on every path)
AdjustEndpoints(cfg, endpoints) ==
    SelectSeq(endpoints,
              LAMBDA e : /\ isSupportedRecordType(e.RecordType)
                         /\ ~(Len(cfg.DomainFilter) > 0
                               /\ ~matchesDomainFilter(cfg.DomainFilter, e.DNSName)))

\* names, written atom by atom, and domain filters for AdjustEndpoints
AdjustNames ==
    { <<"example", ".", "com">>,
      <<"app", ".", "example", ".", "com">>,
      <<"bad", "example", ".", "com">>,
      <<"example", ".", "org">> }

AdjustKinds == {"A", "a", "cname", "AAAA", "TXT"}

AdjustEndpointSet ==
    [DNSName : AdjustNames, RecordType : AdjustKinds, Targets : {<<"1.1.1.1">>},
     ProviderSpecific : {<<>>}]

DomainFilters ==
    { <<>>,
      << <<"example", ".", "com">> >>,
      << <<".", "example", ".", "com">> >>,
      << <<"org">>, <<"app", ".", "example", ".", "com">> >> }

AdjustConfigs == [DryRun : {FALSE}, Client : {TRUE}, DomainFilter : DomainFilters]

\* address records of the names of AdjustNames, with and without the overwrite
\* annotation
FilterEndpoints ==
    [DNSName : AdjustNames, RecordType : {"A"}, Targets : {<<"1.1.1.1">>, <<"2.2.2.2">>},
     ProviderSpecific : { <<>>, << [Name |-> overwriteAnnotationKey, Value |-> "true"] >> }]

\* the changesets handed to a provider with a domain filter: one entry, in any
\* of the lists
FilterChangeSets ==
    {[NoChanges EXCEPT !.Create = <<p>>] : p \in FilterEndpoints}
        \cup {[NoChanges EXCEPT !.Delete = <<p>>] : p \in FilterEndpoints}
        \cup {[NoChanges EXCEPT !.UpdateOld = <<p>>, !.UpdateNew = <<q>>] :
                 p \in {e \in FilterEndpoints : e.Targets = <<"1.1.1.1">> /\ e.ProviderSpecific = <<>>},
                 q \in {e \in FilterEndpoints : e.Targets = <<"2.2.2.2">>}}

\* the stores of such a provider: up to MaxBatchRows rows of these names
FilterStores ==
    {[i \in 1..Len(s) |-> [s[i] EXCEPT !.ID = i]] :
        s \in SeqsUpTo([ID : {0}, Name : AdjustNames, Type : {"A"}, Content : {"1.1.1.1"}],
                       MaxBatchRows)}

\* the endpoints handed to parseOverwriteAnnotation: nil, and endpoints with up
\* to MaxProps properties under the overwrite annotation key or another key
ParseKeys == {overwriteAnnotationKey, "external-dns.alpha.kubernetes.io/other"}

ParseValues == {"true", "True", "TRUE", "false", "yes", "1", ""}

ParseInputs ==
    {NilEndpoint}
        \cup [DNSName : {"a.example.com"}, RecordType : {"A"}, Targets : {<<"1.1.1.1">>},
              ProviderSpecific : SeqsUpTo([Name : ParseKeys, Value : ParseValues], MaxProps)]

\* the overwrite annotation is taken for present and "true" on every endpoint
parseOverwriteAnnotationMutantAllow(p) == TRUE

\* the value is compared with "true" letter by letter
parseOverwriteAnnotationMutantExact(p) ==
    IF p = NilEndpoint THEN FALSE
    ELSE LET hits == {i \in 1..Len(p.ProviderSpecific) :
                         p.ProviderSpecific[i].Name = overwriteAnnotationKey}
         IN  IF hits = {} THEN FALSE
             ELSE LET first == CHOOSE i \in hits : \A j \in hits : i <= j
                  IN  p.ProviderSpecific[first].Value = "true"

parseOverwriteAnnotation(p) ==
    IF p = NilEndpoint THEN FALSE
    ELSE LET hits == {i \in 1..Len(p.ProviderSpecific) :
                         p.ProviderSpecific[i].Name = overwriteAnnotationKey}
         IN  IF hits = {} THEN FALSE
             ELSE LET first == CHOOSE i \in hits : \A j \in hits : i <= j
                  IN  EqualFold(p.ProviderSpecific[first].Value, "true")

(***************************************************************************)
(* The webhook server.  at: where Start stands ("new": Start has not been  *)
(* called); healthServer: the field s.healthServer; health and api: the    *)
(* goroutines of the health server and of the webhook API server;          *)
(* healthErrChan: the buffered channel of the health goroutine; conns: the *)
(* requests the health server is at work on; served: the bodies it has     *)
(* answered with; shutdownErr: what healthServer.Shutdown returned.        *)
(***************************************************************************)
\* healthServer.Shutdown has not been called
NotShutDown == [kind |-> "none", msg |-> <<>>, netTimeout |-> FALSE]

\* no server has been made
NoServer ==
    [at |-> "none", config |-> [ServerPort |-> 0, HealthPort |-> 0], healthServer |-> "nil",
     health |-> "none", api |-> "none", healthErrChan |-> <<>>, conns |-> 0, served |-> <<>>,
     shutdownErr |-> NotShutDown]

\* the ports of the configs the server is made with
ServerConfigs ==
    { [ServerPort |-> 8888, HealthPort |-> 8080],
      [ServerPort |-> 9999, HealthPort |-> 9998],
      [ServerPort |-> 18888, HealthPort |-> 18080] }

\* the server NewServer returns for a config and a provider that are not nil
NewServer(cfg) == [NoServer EXCEPT !.at = "new", !.config = cfg]

\* context.DeadlineExceeded
DeadlineExceeded ==
    [kind |-> "err", msg |-> <<"context", " ", "deadline", " ", "exceeded">>, netTimeout |-> TRUE]

\* the error of ListenAndServe when the port of the health server is taken
AddressInUse == NewError(<<"listen", " ", "tcp", ":", " ", "address", " ", "already", " ", "in", " ", "use">>)

\* shutdown returns an error whatever the health server answered
shutdownMutantAlwaysFails(healthErr) == Wrap("health server shutdown error", DeadlineExceeded)

\* the error shutdown returns, healthServer.Shutdown having returned healthErr
shutdown(healthErr) ==
    IF healthErr # Nil THEN Wrap("health server shutdown error", healthErr) ELSE Nil

\* the bodies handleHealth and handleReady answer with
Bodies == {"OK", "Ready"}

(***************************************************************************)
(* The remote store (the NextDNS rewrites API behind the SDK).  A failed   *)
(* attempt leaves the store as it was.                                     *)
(***************************************************************************)
\* Rewrites.Create: a new row under a fresh id, at the end of the list
RemoteCreate(s, id, name, content) ==
    Append(s, [ID |-> id, Name |-> name, Type |-> RemoteType(content), Content |-> content])

RECURSIVE RemoteDelete(_, _)
\* Rewrites.Delete: the row with the id is gone
RemoteDelete(s, id) ==
    IF s = <<>> THEN <<>>
    ELSE IF Head(s).ID = id THEN RemoteDelete(Tail(s), id)
    ELSE <<Head(s)>> \o RemoteDelete(Tail(s), id)

HasId(s, id) == \E i \in 1..Len(s) : s[i].ID = id

(***************************************************************************)
(* The client.                                                             *)
(***************************************************************************)
\* the error ListRewrites returns when its retryWithBackoff returned e
ListRewrites(e) == IF e = Nil THEN Nil ELSE Wrap("failed to list rewrites", e)

\* the error CreateRewrite returns when its retryWithBackoff returned e
CreateRewrite(e) == IF e = Nil THEN Nil ELSE Wrap("failed to create rewrite", e)

\* the error DeleteRewrite returns when its retryWithBackoff returned e
DeleteRewrite(e) == IF e = Nil THEN Nil ELSE Wrap("failed to delete rewrite", e)

\* the error TestConnection returns when its ListRewrites returned e
TestConnection(e) == IF e = Nil THEN Nil ELSE Wrap("connection test failed", e)

\* the names and kinds FindRewriteByName is asked for: those of the rows and
\* others that differ from them in letter case only
LookupNames == Names \cup {"A.example.com"}

LookupKinds == {"A", "a", "CNAME"}

\* the lookup returns the last row that matches
FindRewriteByNameMutantLast(rewrites, name, recordType) ==
    LET hits == {i \in 1..Len(rewrites) :
                    rewrites[i].Name = name /\ rewrites[i].Type = recordType}
    IN  IF hits = {} THEN [found |-> FALSE, row |-> NoRow]
        ELSE [found |-> TRUE, row |-> rewrites[CHOOSE i \in hits : \A j \in hits : i >= j]]

\* the lookup goes by the kind alone
FindRewriteByNameMutantAnyName(rewrites, name, recordType) ==
    LET hits == {i \in 1..Len(rewrites) : rewrites[i].Type = recordType}
    IN  IF hits = {} THEN [found |-> FALSE, row |-> NoRow]
        ELSE [found |-> TRUE, row |-> rewrites[CHOOSE i \in hits : \A j \in hits : i <= j]]

\* the lookup compares the name alone
FindRewriteByNameMutantNameOnly(rewrites, name, recordType) ==
    LET hits == {i \in 1..Len(rewrites) : rewrites[i].Name = name}
    IN  IF hits = {} THEN [found |-> FALSE, row |-> NoRow]
        ELSE [found |-> TRUE, row |-> rewrites[CHOOSE i \in hits : \A j \in hits : i <= j]]

\* the scan of FindRewriteByName over the rows ListRewrites returned
FindRewriteByName(rewrites, name, recordType) ==
    LET hits == {i \in 1..Len(rewrites) :
                    rewrites[i].Name = name /\ rewrites[i].Type = recordType}
    IN  IF hits = {} THEN [found |-> FALSE, row |-> NoRow]
        ELSE [found |-> TRUE, row |-> rewrites[CHOOSE i \in hits : \A j \in hits : i <= j]]

\* UpdateRewrite, when its DeleteRewrite returned e
UpdateRewriteDelete(e) ==
    IF e = Nil THEN Nil ELSE Wrap("failed to delete old rewrite during update", e)

\* UpdateRewrite, when its CreateRewrite returned e
UpdateRewriteCreate(e) ==
    IF e = Nil THEN Nil ELSE Wrap("failed to create new rewrite during update", e)

(***************************************************************************)
(* The provider.  A control record says where an operation stands after a  *)
(* client call has returned: finished with a result, or at the next remote *)
(* call.                                                                   *)
(***************************************************************************)
Finished(e) == [phase |-> "done", ti |-> 0, site |-> "none", existing |-> NoRow, result |-> e]

At(t, s, row) == [phase |-> "running", ti |-> t, site |-> s, existing |-> row, result |-> Nil]

\* a record operation called on its own: the endpoint stays, nothing of a
\* changeset is touched and nothing is handed back but the error
Keep(c) ==
    c @@ [ep |-> ep, entry |-> entry, diag |-> diag, applied |-> applied, out |-> out]

\* the head of the loop over ep.Targets in createRecord and deleteRecord:
\* the lookup for target t, or the return after the last target
NextTarget(p, t) == IF t > Len(p.Targets) THEN Finished(Nil) ELSE At(t, "find", NoRow)

\* an authorized overwrite creates the new row and leaves the old one in place
createRecordMutantNoDelete(p, t, s, row, e, rewrites) ==
    CASE s = "find" ->
            IF ListRewrites(e) # Nil
            THEN Finished(Wrap("failed to check for existing record", ListRewrites(e)))
            ELSE LET f == FindRewriteByName(rewrites, p.DNSName, p.RecordType)
                 IN  IF f.found
                     THEN IF ~parseOverwriteAnnotation(p)
                          THEN NextTarget(p, t + 1)
                          ELSE At(t, "create", NoRow)
                     ELSE At(t, "create", NoRow)
      [] s = "create" ->
            IF CreateRewrite(e) # Nil
            THEN Finished(Wrap("failed to create record", CreateRewrite(e)))
            ELSE NextTarget(p, t + 1)

\* UpdateRewrite goes on to its create call although its delete call has failed
createRecordMutantCreatesAnyway(p, t, s, row, e, rewrites) ==
    CASE s = "find" ->
            IF ListRewrites(e) # Nil
            THEN Finished(Wrap("failed to check for existing record", ListRewrites(e)))
            ELSE LET f == FindRewriteByName(rewrites, p.DNSName, p.RecordType)
                 IN  IF f.found
                     THEN IF ~parseOverwriteAnnotation(p)
                          THEN NextTarget(p, t + 1)
                          ELSE At(t, "updateDelete", f.row)
                     ELSE At(t, "create", NoRow)
      [] s = "updateDelete" -> At(t, "updateCreate", row)
      [] s = "updateCreate" ->
            IF CreateRewrite(e) # Nil
            THEN Finished(Wrap("failed to update existing record",
                               UpdateRewriteCreate(CreateRewrite(e))))
            ELSE NextTarget(p, t + 1)
      [] s = "create" ->
            IF CreateRewrite(e) # Nil
            THEN Finished(Wrap("failed to create record", CreateRewrite(e)))
            ELSE NextTarget(p, t + 1)

\* createRecord from the return of the client call at call site s, made for
\* target t, to the next remote call or to the return: e is what the call's
\* retryWithBackoff returned, rewrites the rows a successful list returned
createRecord(p, t, s, row, e, rewrites) ==
    CASE s = "find" ->
            IF ListRewrites(e) # Nil
            THEN Finished(Wrap("failed to check for existing record", ListRewrites(e)))
            ELSE LET f == FindRewriteByName(rewrites, p.DNSName, p.RecordType)
                 IN  IF f.found
                     THEN IF ~parseOverwriteAnnotation(p)
                          THEN NextTarget(p, t + 1)
                          ELSE At(t, "updateDelete", f.row)
                     ELSE At(t, "create", NoRow)
      [] s = "updateDelete" ->
            IF DeleteRewrite(e) # Nil
            THEN Finished(Wrap("failed to update existing record",
                               UpdateRewriteDelete(DeleteRewrite(e))))
            ELSE At(t, "updateCreate", row)
      [] s = "updateCreate" ->
            IF CreateRewrite(e) # Nil
            THEN Finished(Wrap("failed to update existing record",
                               UpdateRewriteCreate(CreateRewrite(e))))
            ELSE NextTarget(p, t + 1)
      [] s = "create" ->
            IF CreateRewrite(e) # Nil
            THEN Finished(Wrap("failed to create record", CreateRewrite(e)))
            ELSE NextTarget(p, t + 1)

\* a row that is not found makes deleteRecord fail
deleteRecordMutantNotFoundFails(p, t, s, row, e, rewrites) ==
    CASE s = "find" ->
            IF ListRewrites(e) # Nil
            THEN Finished(Wrap("failed to find record for deletion", ListRewrites(e)))
            ELSE LET f == FindRewriteByName(rewrites, p.DNSName, p.RecordType)
                 IN  IF ~f.found
                     THEN Finished(NewError(<<"record", " ", "not", " ", "found">>))
                     ELSE At(t, "delete", f.row)
      [] s = "delete" ->
            IF DeleteRewrite(e) # Nil
            THEN Finished(Wrap("failed to delete record", DeleteRewrite(e)))
            ELSE NextTarget(p, t + 1)

\* deleteRecord from the return of the client call at call site s, made for
\* target t, to the next remote call or to the return
deleteRecord(p, t, s, row, e, rewrites) ==
    CASE s = "find" ->
            IF ListRewrites(e) # Nil
            THEN Finished(Wrap("failed to find record for deletion", ListRewrites(e)))
            ELSE LET f == FindRewriteByName(rewrites, p.DNSName, p.RecordType)
                 IN  IF ~f.found THEN NextTarget(p, t + 1) ELSE At(t, "delete", f.row)
      [] s = "delete" ->
            IF DeleteRewrite(e) # Nil
            THEN Finished(Wrap("failed to delete record", DeleteRewrite(e)))
            ELSE NextTarget(p, t + 1)

\* createRecord up to its first remote call: a record of an unsupported kind
\* is skipped
createRecordEntry(p) ==
    IF ~isSupportedRecordType(p.RecordType) THEN Finished(Nil) ELSE NextTarget(p, 1)

\* deleteRecord up to its first remote call
deleteRecordEntry(p) ==
    IF ~isSupportedRecordType(p.RecordType) THEN Finished(Nil)
    ELSE IF ~config.Client THEN Finished(NewError(<<"client not initialized">>))
    ELSE NextTarget(p, 1)

(***************************************************************************)
(* ApplyChanges, updateRecord, logChanges and Records.  The operators give  *)
(* the control record of the call after a record operation has returned:   *)
(* the next remote call, made for an entry of the changeset, or the return. *)
(***************************************************************************)
\* the Delete list is gone through first
ListOrderMutantDeleteFirst == <<"Delete", "Create", "Update">>

\* the lists of a changeset in the order ApplyChanges goes through them
ListOrder == <<"Create", "Update", "Delete">>

\* the number of entries of a list of the changeset
EntriesOf(ch, list) ==
    CASE list = "Create" -> Len(ch.Create)
      [] list = "Update" -> Len(ch.UpdateOld)
      [] list = "Delete" -> Len(ch.Delete)
      [] OTHER -> 0

\* the endpoint the record operation of an entry's leg is called on
EntryEndpoint(ch, en) ==
    CASE en.list = "Create" -> ch.Create[en.i]
      [] en.list = "Update" /\ en.leg = "delete" -> ch.UpdateOld[en.i]
      [] en.list = "Update" -> ch.UpdateNew[en.i]
      [] en.list = "Delete" -> ch.Delete[en.i]
      [] OTHER -> NoEndpoint

\* the name ApplyChanges puts into the error of an entry
EntryName(ch, en) ==
    CASE en.list = "Create" -> ch.Create[en.i].DNSName
      [] en.list = "Update" -> ch.UpdateOld[en.i].DNSName
      [] en.list = "Delete" -> ch.Delete[en.i].DNSName
      [] OTHER -> ""

\* the text ApplyChanges puts in front of the error of an entry
EntryPrefix(list) ==
    CASE list = "Create" -> "failed to create record"
      [] list = "Update" -> "failed to update record"
      [] list = "Delete" -> "failed to delete record"
      [] OTHER -> ""

\* ApplyChanges is inside the record operation c of entry en, at a remote call
Sub(c, p, en, ap, dg) ==
    c @@ [ep |-> p, entry |-> en, applied |-> ap, diag |-> dg, out |-> out]

\* ApplyChanges returns e, entry en being the last it has worked on
Stop(e, p, en, ap, dg) ==
    Finished(e) @@ [ep |-> p, entry |-> en, applied |-> ap, diag |-> dg, out |-> out]

\* the warning updateRecord logs when the new record could not be created
InconsistentState(old, new) ==
    [msg |-> "DNS record is in inconsistent state - old record deleted but new record not created",
     dns_name |-> new.DNSName, old_target |-> old.Targets, new_target |-> new.Targets]

\* every error of a record operation is passed over
FailedMutantNever(err) == FALSE

\* if err != nil
Failed(err) == err # Nil

RECURSIVE ApplyChangesFrom(_, _, _, _, _)

\* ApplyChanges, the record operation of entry en having returned r: the error
\* is wrapped and returned, or the loop goes on to the next entry
ApplyChangesAfter(ch, en, r, ap, dg) ==
    LET k == CHOOSE j \in 1..Len(ListOrder) : ListOrder[j] = en.list
        done == Append(ap, [list |-> en.list, i |-> en.i, err |-> r])
    IN  IF Failed(r)
        THEN Stop(WrapName(EntryPrefix(en.list), EntryName(ch, en), r),
                  EntryEndpoint(ch, en), en, done, dg)
        ELSE ApplyChangesFrom(ch, k, en.i + 1, done, dg)

\* the warning about the inconsistent state is not logged
updateRecordAfterCreateMutantSilent(ch, en, r, ap, dg) ==
    IF r # Nil
    THEN ApplyChangesAfter(ch, en, Wrap("failed to create new record during update", r), ap, dg)
    ELSE ApplyChangesAfter(ch, en, Nil, ap, dg)

\* updateRecord, its createRecord(newEp) having returned r
updateRecordAfterCreate(ch, en, r, ap, dg) ==
    IF r # Nil
    THEN ApplyChangesAfter(ch, en, Wrap("failed to create new record during update", r), ap,
                           Append(dg, InconsistentState(ch.UpdateOld[en.i], ch.UpdateNew[en.i])))
    ELSE ApplyChangesAfter(ch, en, Nil, ap, dg)

\* the new record is created although the old one could not be deleted
updateRecordAfterDeleteMutantGoesOn(ch, en, r, ap, dg) ==
    LET new == ch.UpdateNew[en.i]
        c == createRecordEntry(new)
        leg == [en EXCEPT !.leg = "create"]
    IN  IF c.phase = "running" THEN Sub(c, new, leg, ap, dg)
        ELSE updateRecordAfterCreate(ch, leg, c.result, ap, dg)

\* updateRecord, its deleteRecord(oldEp) having returned r
updateRecordAfterDelete(ch, en, r, ap, dg) ==
    IF r # Nil
    THEN ApplyChangesAfter(ch, en, Wrap("failed to delete old record during update", r), ap, dg)
    ELSE LET new == ch.UpdateNew[en.i]
             c == createRecordEntry(new)
             leg == [en EXCEPT !.leg = "create"]
         IN  IF c.phase = "running" THEN Sub(c, new, leg, ap, dg)
             ELSE updateRecordAfterCreate(ch, leg, c.result, ap, dg)

\* updateRecord up to its first remote call
updateRecord(ch, en, ap, dg) ==
    LET old == ch.UpdateOld[en.i]
        c == deleteRecordEntry(old)
    IN  IF ~isSupportedRecordType(old.RecordType) THEN ApplyChangesAfter(ch, en, Nil, ap, dg)
        ELSE IF c.phase = "running" THEN Sub(c, old, en, ap, dg)
        ELSE updateRecordAfterDelete(ch, en, c.result, ap, dg)

\* ApplyChanges from entry i of the k-th list on, up to the next remote call
ApplyChangesFrom(ch, k, i, ap, dg) ==
    IF k > Len(ListOrder) THEN Stop(Nil, NoEndpoint, NoEntry, ap, dg)
    ELSE IF i > EntriesOf(ch, ListOrder[k]) THEN ApplyChangesFrom(ch, k + 1, 1, ap, dg)
    ELSE LET list == ListOrder[k]
             en == [list |-> list, i |-> i, leg |-> IF list = "Create" THEN "create" ELSE "delete"]
             p == EntryEndpoint(ch, en)
             c == IF list = "Create" THEN createRecordEntry(p) ELSE deleteRecordEntry(p)
         IN  IF list = "Update" THEN updateRecord(ch, en, ap, dg)
             ELSE IF c.phase = "running" THEN Sub(c, p, en, ap, dg)
             ELSE ApplyChangesAfter(ch, en, c.result, ap, dg)

\* the line of the preview for an entry of the Create list: currentRecords are
\* the records the preview goes by, the last record of a name and kind standing
\* for it in the lookup map
WouldCreate(p, currentRecords) ==
    LET hits == {i \in 1..Len(currentRecords) :
                    /\ currentRecords[i].DNSName = p.DNSName
                    /\ currentRecords[i].RecordType = p.RecordType}
        exists == hits # {}
        current == currentRecords[CHOOSE i \in hits : \A j \in hits : i >= j]
    IN  [action |-> "CREATE", dns_name |-> p.DNSName, record_type |-> p.RecordType,
         target |-> p.Targets,
         conflict |-> exists,
         current_value |-> IF exists THEN current.Targets ELSE <<>>,
         overwrite |-> IF ~exists THEN ""
                       ELSE IF parseOverwriteAnnotation(p) THEN "allowed (annotation present)"
                       ELSE "blocked (annotation not present)"]

\* the line of the preview for an update
WouldUpdate(oldEp, newEp) ==
    [action |-> "UPDATE", dns_name |-> oldEp.DNSName, record_type |-> oldEp.RecordType,
     current |-> oldEp.Targets, planned |-> newEp.Targets]

\* the line of the preview for an entry of the Delete list
WouldDelete(p) ==
    [action |-> "DELETE", dns_name |-> p.DNSName, record_type |-> p.RecordType,
     target |-> p.Targets]

\* the lines logChanges writes between the head and the end of the preview
logChangesLines(ch, currentRecords) ==
    [i \in 1..Len(ch.Create) |-> WouldCreate(ch.Create[i], currentRecords)]
        \o [i \in 1..Len(ch.UpdateOld) |-> WouldUpdate(ch.UpdateOld[i], ch.UpdateNew[i])]
        \o [i \in 1..Len(ch.Delete) |-> WouldDelete(ch.Delete[i])]

\* logChanges up to the list call of its Records: without a client Records
\* fails and the preview goes on with no current records
logChanges(ch) ==
    IF ~config.Client THEN Stop(Nil, NoEndpoint, NoEntry, <<>>, logChangesLines(ch, <<>>))
    ELSE Sub(At(0, "preview", NoRow), NoEndpoint, NoEntry, <<>>, <<>>)

\* the changes are applied in a dry run as well
ApplyChangesMutantIgnoresDryRun(ch) == ApplyChangesFrom(ch, 1, 1, <<>>, <<>>)

\* ApplyChanges up to its first remote call
ApplyChanges(ch) ==
    IF config.DryRun THEN logChanges(ch) ELSE ApplyChangesFrom(ch, 1, 1, <<>>, <<>>)

\* the endpoint Records makes of a row
ToEndpoint(rewrite) ==
    [DNSName |-> rewrite.Name, RecordType |-> rewrite.Type,
     Targets |-> <<rewrite.Content>>, ProviderSpecific |-> <<>>]

\* Records up to its list call
RecordsEntry ==
    IF ~config.Client
    THEN Finished(NewError(<<"client not initialized">>))
            @@ [ep |-> NoEndpoint, entry |-> NoEntry, applied |-> <<>>, diag |-> <<>>,
                out |-> NilEndpoints]
    ELSE At(0, "records", NoRow)
            @@ [ep |-> NoEndpoint, entry |-> NoEntry, applied |-> <<>>, diag |-> <<>>,
                out |-> NoOutput]

\* the rows come back in reverse order
RecordsMutantReversed(e, rewrites) ==
    IF ListRewrites(e) # Nil
    THEN [Keep(Finished(Wrap("failed to list rewrites", ListRewrites(e)))) EXCEPT
            !.out = NilEndpoints]
    ELSE [Keep(Finished(Nil)) EXCEPT
            !.out = Slice([i \in 1..Len(rewrites) |-> ToEndpoint(rewrites[Len(rewrites) + 1 - i])])]

\* Records, its ListRewrites having returned e and, on success, the rows
Records(e, rewrites) ==
    IF ListRewrites(e) # Nil
    THEN [Keep(Finished(Wrap("failed to list rewrites", ListRewrites(e)))) EXCEPT
            !.out = NilEndpoints]
    ELSE [Keep(Finished(Nil)) EXCEPT
            !.out = Slice([i \in 1..Len(rewrites) |-> ToEndpoint(rewrites[i])])]

\* every Create entry is previewed as free of conflict
logChangesAfterMutantNoConflict(ch, e, rewrites) ==
    [Keep(Finished(Nil)) EXCEPT !.diag = logChangesLines(ch, <<>>)]

\* logChanges, the ListRewrites of its Records having returned e and, on
\* success, the rows: when Records fails the preview goes by no current records
logChangesAfter(ch, e, rewrites) ==
    [Keep(Finished(Nil)) EXCEPT
        !.diag = logChangesLines(ch, IF ListRewrites(e) # Nil THEN <<>>
                                     ELSE [i \in 1..Len(rewrites) |-> ToEndpoint(rewrites[i])])]

\* ApplyChanges, standing at x inside the record operation of an entry, once
\* the retryWithBackoff of the remote call at x has returned e: the record
\* operation goes on, or it returns and updateRecord or the loop go on
ApplyChangesResume(ch, x, e, rewrites) ==
    LET c == IF x.entry.leg = "create"
             THEN createRecord(x.ep, x.ti, x.site, x.existing, e, rewrites)
             ELSE deleteRecord(x.ep, x.ti, x.site, x.existing, e, rewrites)
    IN  IF c.phase = "running" THEN Sub(c, x.ep, x.entry, x.applied, x.diag)
        ELSE IF x.entry.list = "Update" /\ x.entry.leg = "delete"
             THEN updateRecordAfterDelete(ch, x.entry, c.result, x.applied, x.diag)
        ELSE IF x.entry.list = "Update"
             THEN updateRecordAfterCreate(ch, x.entry, c.result, x.applied, x.diag)
        ELSE ApplyChangesAfter(ch, x.entry, c.result, x.applied, x.diag)

\* the warning NewProvider logs when the connection test fails
ConnectionWarning ==
    [msg |-> "Failed to connect to NextDNS API - provider will continue but may fail on actual operations"]

\* a provider whose connection test fails is not handed out
NewProviderAfterTestMutantFails(e) ==
    IF TestConnection(ListRewrites(e)) # Nil
    THEN [Keep(Finished(TestConnection(ListRewrites(e)))) EXCEPT !.out = NilProvider]
    ELSE [Keep(Finished(Nil)) EXCEPT !.out = ProviderOf(arg)]

\* NewProvider, the ListRewrites of its connection test having returned e
NewProviderAfterTest(e) ==
    IF TestConnection(ListRewrites(e)) # Nil
    THEN [Keep(Finished(Nil)) EXCEPT !.out = ProviderOf(arg), !.diag = <<ConnectionWarning>>]
    ELSE [Keep(Finished(Nil)) EXCEPT !.out = ProviderOf(arg)]

\* NewProvider up to the list call of its connection test
NewProvider(cfg) ==
    LET none == [ep |-> NoEndpoint, entry |-> NoEntry, applied |-> <<>>, diag |-> <<>>]
    IN  IF cfg = NilConfig
        THEN Finished(NewError(<<"config", " ", "cannot", " ", "be", " ", "nil">>))
                @@ none @@ [out |-> NilProvider]
        ELSE IF NewClient(cfg.APIKey, cfg.ProfileID, cfg.BaseURL) # Nil
        THEN Finished(Wrap("failed to create NextDNS client",
                           NewClient(cfg.APIKey, cfg.ProfileID, cfg.BaseURL)))
                @@ none @@ [out |-> NilProvider]
        ELSE IF cfg.DryRun THEN Finished(Nil) @@ none @@ [out |-> ProviderOf(cfg)]
        ELSE At(0, "connect", NoRow) @@ none @@ [out |-> NoOutput]

\* FindRewriteByName called by itself, its ListRewrites having returned e and,
\* on success, the rows: the row (nil: no row), found and the error
FindRewriteByNameReturn(e, rewrites) ==
    IF ListRewrites(e) # Nil
    THEN [Keep(Finished(ListRewrites(e))) EXCEPT !.out = [kind |-> "false", eps |-> <<>>]]
    ELSE LET f == FindRewriteByName(rewrites, ep.DNSName, ep.RecordType)
         IN  [Keep(Finished(Nil)) EXCEPT
                 !.existing = f.row,
                 !.out = [kind |-> IF f.found THEN "true" ELSE "false", eps |-> <<>>]]

\* where the running operation stands once the retryWithBackoff of its
\* remote call in flight has returned e
AfterCall(e, rewrites) ==
    CASE opName = "createRecord" -> Keep(createRecord(ep, ti, site, existing, e, rewrites))
      [] opName = "deleteRecord" -> Keep(deleteRecord(ep, ti, site, existing, e, rewrites))
      [] opName = "Records" -> Records(e, rewrites)
      [] opName = "NewProvider" -> NewProviderAfterTest(e)
      [] opName = "FindRewriteByName" -> FindRewriteByNameReturn(e, rewrites)
      [] opName = "ApplyChanges" /\ site = "preview" -> logChangesAfter(changes, e, rewrites)
      [] opName = "ApplyChanges" /\ site # "preview" ->
            ApplyChangesResume(changes,
                               [ep |-> ep, ti |-> ti, site |-> site, existing |-> existing,
                                entry |-> entry, applied |-> applied, diag |-> diag],
                               e, rewrites)
      [] OTHER -> Keep(Finished(e))

(***************************************************************************)
(* The errors the environment answers with.                                *)
(***************************************************************************)
\* the error of the SDK for an HTTP status
ApiError(code) ==
    NewError(<<"API", " ", "error", ":", " ">> \o Sprintf(code) \o <<" ">> \o StatusText(code))

\* a 404 whose message names a row id that has 500 in it
NotFound5003 ==
    NewError(<<"API", " ", "error", ":", " ">> \o Sprintf(404) \o <<" ">> \o StatusText(404)
                \o <<" ", "rewrite", " ", "5", "0", "0", "3">>)

\* what a remote call of the provider's operations can fail with
RemoteErrors == {ApiError(503), ApiError(404)}

\* what the operation handed to retryWithBackoff can fail with
OperationErrors ==
    {ApiError(c) : c \in {400, 401, 403, 404, 429, 500, 502, 503, 504}}
        \cup { NewError(<<"some", " ", "random", " ", "error">>),
               NewError(<<"unexpected", " ", "EOF">>),
               NewError(<<"dial", " ", "tcp", ":", " ", "connection", " ", "refused">>),
               NetTimeoutError(<<"i/o", " ", "deadline", " ", "reached">>),
               NotFound5003 }

\* the transient errors of a remote call
TransientErrors == {ApiError(503)}

ErrorsOf(s) == IF s = "operation" THEN OperationErrors ELSE RemoteErrors

\* the remote call made at a call site
ApiOf(s) ==
    CASE s \in {"find", "preview", "records", "connect"} -> "List"
      [] s \in {"create", "updateCreate"} -> "Create"
      [] s \in {"delete", "updateDelete"} -> "Delete"
      [] OTHER -> "operation"

\* the entry of the history for one invocation made now, with outcome e
Invocation(e) ==
    [api |-> ApiOf(site),
     id |-> IF ApiOf(site) = "Delete" THEN existing.ID
            ELSE IF ApiOf(site) = "Create" /\ e = Nil THEN nextId
            ELSE 0,
     name |-> IF ApiOf(site) = "Create" THEN ep.DNSName ELSE "",
     content |-> IF ApiOf(site) = "Create" THEN ep.Targets[ti] ELSE "",
     entry |-> entry,
     target |-> ti,
     attempt |-> attempt,
     err |-> e]

(***************************************************************************)
(* Actions.                                                                *)
(***************************************************************************)
\* an operation is called: its frame is set up and it runs to its first
\* remote call (or returns at once)
Begin(name, p, c) ==
    /\ opName' = name
    /\ ep' = p
    /\ phase' = c.phase
    /\ ti' = c.ti
    /\ site' = c.site
    /\ existing' = c.existing
    /\ result' = c.result
    /\ attempt' = 0
    /\ rpc' = "attempt"
    /\ lastErr' = Nil
    /\ store0' = store
    /\ calls' = <<>>
    /\ waits' = <<>>
    /\ fails' = 0
    /\ entry' = c.entry
    /\ diag' = c.diag
    /\ applied' = c.applied
    /\ out' = c.out
    /\ UNCHANGED <<store, nextId, cErr, cOut, config, arg, server>>

\* a changeset is applied as a whole or not at all: when ApplyChanges returns an
\* error the store is what it was before the call
ResumeMutantRollsBack(e, s, n, cs, f) ==
    LET c == AfterCall(e, s)
    IN  /\ phase' = c.phase
        /\ ti' = c.ti
        /\ site' = c.site
        /\ existing' = c.existing
        /\ result' = c.result
        /\ attempt' = 0
        /\ rpc' = "attempt"
        /\ lastErr' = Nil
        /\ store' = IF opName = "ApplyChanges" /\ c.phase = "done" /\ c.result # Nil
                    THEN store0 ELSE s
        /\ nextId' = n
        /\ calls' = cs
        /\ fails' = f
        /\ ep' = c.ep
        /\ entry' = c.entry
        /\ diag' = c.diag
        /\ applied' = c.applied
        /\ out' = c.out
        /\ UNCHANGED <<cancelled, opName, store0, waits, returned, cErr, cOut,
                       config, changes, arg, server>>

\* the attempts of all the remote calls of an operation are counted together
ResumeMutantSharedBudget(e, s, n, cs, f) ==
    LET c == AfterCall(e, s)
    IN  /\ phase' = c.phase
        /\ ti' = c.ti
        /\ site' = c.site
        /\ existing' = c.existing
        /\ result' = c.result
        /\ attempt' = attempt
        /\ rpc' = "attempt"
        /\ lastErr' = Nil
        /\ store' = s
        /\ nextId' = n
        /\ calls' = cs
        /\ fails' = f
        /\ ep' = c.ep
        /\ entry' = c.entry
        /\ diag' = c.diag
        /\ applied' = c.applied
        /\ out' = c.out
        /\ UNCHANGED <<cancelled, opName, store0, waits, returned, cErr, cOut,
                       config, changes, arg, server>>

\* the retryWithBackoff of the remote call in flight returns e, the store
\* being s: the client call and the operation run on to the next remote call
Resume(e, s, n, cs, f) ==
    LET c == AfterCall(e, s)
    IN  /\ phase' = c.phase
        /\ ti' = c.ti
        /\ site' = c.site
        /\ existing' = c.existing
        /\ result' = c.result
        /\ attempt' = 0
        /\ rpc' = "attempt"
        /\ lastErr' = Nil
        /\ store' = s
        /\ nextId' = n
        /\ calls' = cs
        /\ fails' = f
        /\ ep' = c.ep
        /\ entry' = c.entry
        /\ diag' = c.diag
        /\ applied' = c.applied
        /\ out' = c.out
        /\ UNCHANGED <<cancelled, opName, store0, waits, returned, cErr, cOut,
                       config, changes, arg, server>>

CallCreateRecord ==
    /\ phase = "idle"
    /\ \E p \in Endpoints : Begin("createRecord", p, Keep(createRecordEntry(p)))
    /\ UNCHANGED <<cancelled, returned, changes>>

CallDeleteRecord ==
    /\ phase = "idle"
    /\ \E p \in Endpoints : Begin("deleteRecord", p, Keep(deleteRecordEntry(p)))
    /\ UNCHANGED <<cancelled, returned, changes>>

\* createRecord is called on a record whose kind is written in lower case
CallCreateLowerCase ==
    /\ phase = "idle"
    /\ \E p \in LowerCaseEndpoints : Begin("createRecord", p, Keep(createRecordEntry(p)))
    /\ UNCHANGED <<cancelled, returned, changes>>

\* the caller calls the operation once more on the same endpoint, with a
\* fresh context
CallAgain ==
    /\ phase = "done"
    /\ opName \in {"createRecord", "deleteRecord"}
    /\ Len(returned) + 1 < MaxOps
    /\ Begin(opName, ep,
             Keep(IF opName = "createRecord" THEN createRecordEntry(ep)
                                             ELSE deleteRecordEntry(ep)))
    /\ returned' = Append(returned, result)
    /\ cancelled' = FALSE
    /\ UNCHANGED changes

\* the caller goes on to another record operation, on a record of its choice,
\* with a fresh context, whatever the last one returned
CallNext ==
    /\ phase = "done"
    /\ opName \in {"createRecord", "deleteRecord"}
    /\ Len(returned) + 1 < MaxOps
    /\ \E name \in {"createRecord", "deleteRecord"}, p \in BatchEndpoints :
          Begin(name, p,
                Keep(IF name = "createRecord" THEN createRecordEntry(p)
                                              ELSE deleteRecordEntry(p)))
    /\ returned' = Append(returned, result)
    /\ cancelled' = FALSE
    /\ UNCHANGED changes

\* ApplyChanges is called on a changeset.  Without a client a record of the
\* Create list would make createRecord dereference the nil client, so such a
\* provider is handed changesets without one (NewProvider always sets a client).
CallApplyChanges ==
    /\ phase = "idle"
    /\ \E ch \in ChangeSets :
          /\ config.Client \/ config.DryRun \/ ch.Create = <<>>
          /\ changes' = ch
          /\ Begin("ApplyChanges", ApplyChanges(ch).ep, ApplyChanges(ch))
    /\ UNCHANGED <<cancelled, returned>>

\* a synchronization pass: ApplyChanges is called on the changeset of the pass
CallSync ==
    /\ phase = "idle"
    /\ \E ch \in SyncChangeSets :
          /\ config.Client \/ config.DryRun \/ ch.Create = <<>>
          /\ changes' = ch
          /\ Begin("ApplyChanges", ApplyChanges(ch).ep, ApplyChanges(ch))
    /\ UNCHANGED <<cancelled, returned>>

\* ApplyChanges is called on a provider with a domain filter
CallApplyFiltered ==
    /\ phase = "idle"
    /\ \E ch \in FilterChangeSets :
          /\ changes' = ch
          /\ Begin("ApplyChanges", ApplyChanges(ch).ep, ApplyChanges(ch))
    /\ UNCHANGED <<cancelled, returned>>

\* ApplyChanges is called while the remote store is out of order now and then
CallApplyTransient ==
    /\ phase = "idle"
    /\ \E ch \in TransientChangeSets :
          /\ config.Client \/ config.DryRun \/ ch.Create = <<>>
          /\ changes' = ch
          /\ Begin("ApplyChanges", ApplyChanges(ch).ep, ApplyChanges(ch))
    /\ UNCHANGED <<cancelled, returned>>

\* Records is called
CallRecords ==
    /\ phase = "idle"
    /\ Begin("Records", NoEndpoint, RecordsEntry)
    /\ UNCHANGED <<cancelled, returned, changes>>

\* FindRewriteByName is called for a name and a kind
CallFindRewriteByName ==
    /\ phase = "idle"
    /\ \E name \in LookupNames, kind \in LookupKinds :
          Begin("FindRewriteByName",
                [DNSName |-> name, RecordType |-> kind, Targets |-> <<>>,
                 ProviderSpecific |-> <<>>],
                Keep(At(0, "find", NoRow)))
    /\ UNCHANGED <<cancelled, returned, changes>>

\* NewProvider is called on the config at hand
CallNewProvider ==
    /\ phase = "idle"
    /\ Begin("NewProvider", NoEndpoint, NewProvider(arg))
    /\ UNCHANGED <<cancelled, returned, changes>>

\* AdjustEndpoints is called on the endpoints at hand
CallAdjustEndpoints ==
    /\ phase = "idle"
    /\ phase' = "done"
    /\ opName' = "AdjustEndpoints"
    /\ out' = Slice(AdjustEndpoints(config, arg))
    /\ result' = Nil
    /\ UNCHANGED <<store, nextId, cancelled, ep, ti, site, existing, attempt, rpc, lastErr,
                   store0, calls, waits, fails, returned, cErr, cOut, config, changes,
                   entry, diag, applied, arg, server>>

\* parseOverwriteAnnotation is called on the endpoint at hand
CallParseOverwriteAnnotation ==
    /\ phase = "idle"
    /\ phase' = "done"
    /\ opName' = "parseOverwriteAnnotation"
    /\ out' = [kind |-> IF parseOverwriteAnnotation(arg) THEN "true" ELSE "false", eps |-> <<>>]
    /\ UNCHANGED <<store, nextId, cancelled, ep, ti, site, existing, attempt, rpc, lastErr,
                   result, store0, calls, waits, fails, returned, cErr, cOut, config,
                   changes, entry, diag, applied, arg, server>>

\* retryWithBackoff is called on an operation of the caller's
CallRetryWithBackoff ==
    /\ phase = "idle"
    /\ Begin("retryWithBackoff", NoEndpoint, Keep(At(0, "operation", NoRow)))
    /\ UNCHANGED <<cancelled, returned, changes>>

\* the caller cancels the context
Cancel ==
    /\ phase \in {"idle", "running"}
    /\ ~cancelled
    /\ cancelled' = TRUE
    /\ UNCHANGED <<store, nextId, phase, opName, ep, ti, site, existing, attempt, rpc,
                   lastErr, result, store0, calls, waits, fails, returned, cErr, cOut,
                   config, changes, entry, diag, applied, arg, out, server>>

\* the caller cancels the context while ApplyChanges runs
CancelWhileRunning ==
    /\ opName = "ApplyChanges" /\ phase = "running"
    /\ Cancel

\* another writer of the profile removes a row while the operation runs, between
\* two of its remote calls
OtherWriterDeletes ==
    /\ phase = "running" /\ rpc = "attempt" /\ attempt = 0
    /\ \E i \in 1..Len(store) : store' = RemoteDelete(store, store[i].ID)
    /\ UNCHANGED <<nextId, cancelled, phase, opName, ep, ti, site, existing, attempt, rpc,
                   lastErr, result, store0, calls, waits, fails, returned, cErr, cOut,
                   config, changes, entry, diag, applied, arg, out, server>>

\* Start is called: the health server is set up and the two goroutines are
\* started; Start waits for the webhook API server at <-startedChan
CallStart ==
    /\ phase = "idle"
    /\ server.at = "new"
    /\ phase' = "running"
    /\ opName' = "Start"
    /\ server' = [server EXCEPT !.at = "startedChan", !.healthServer = "set",
                                !.health = "spawned", !.api = "spawned"]
    /\ UNCHANGED <<store, nextId, cancelled, ep, ti, site, existing, attempt, rpc, lastErr,
                   result, store0, calls, waits, fails, returned, cErr, cOut, config,
                   changes, entry, diag, applied, arg, out>>

\* the health goroutine: ListenAndServe listens and serves, or returns
\* http.ErrServerClosed if the server has been shut down already
HealthListens ==
    /\ server.health = "spawned"
    /\ server' = [server EXCEPT
                     !.health = IF server.at \in {"shutdown", "returned"} THEN "closed"
                                ELSE "serving"]
    /\ UNCHANGED <<store, nextId, cancelled, phase, opName, ep, ti, site, existing, attempt,
                   rpc, lastErr, result, store0, calls, waits, fails, returned, cErr, cOut,
                   config, changes, entry, diag, applied, arg, out>>

\* the health goroutine: ListenAndServe fails and its error goes to healthErrChan
HealthListenFails ==
    /\ server.health = "spawned"
    /\ server.at \notin {"shutdown", "returned"}
    /\ server' = [server EXCEPT !.health = "failed", !.healthErrChan = <<AddressInUse>>]
    /\ UNCHANGED <<store, nextId, cancelled, phase, opName, ep, ti, site, existing, attempt,
                   rpc, lastErr, result, store0, calls, waits, fails, returned, cErr, cOut,
                   config, changes, entry, diag, applied, arg, out>>

\* the API goroutine: api.StartHTTPApi listens on the server port
ApiListens ==
    /\ server.api = "spawned"
    /\ server' = [server EXCEPT !.api = "listening"]
    /\ UNCHANGED <<store, nextId, cancelled, phase, opName, ep, ti, site, existing, attempt,
                   rpc, lastErr, result, store0, calls, waits, fails, returned, cErr, cOut,
                   config, changes, entry, diag, applied, arg, out>>

\* the API goroutine: api.StartHTTPApi cannot listen and ends the process
ApiListenFails ==
    /\ server.api = "spawned"
    /\ server.at \notin {"returned"}
    /\ server' = [server EXCEPT !.api = "fatal", !.at = "exited", !.health = "exited"]
    /\ UNCHANGED <<store, nextId, cancelled, phase, opName, ep, ti, site, existing, attempt,
                   rpc, lastErr, result, store0, calls, waits, fails, returned, cErr, cOut,
                   config, changes, entry, diag, applied, arg, out>>

\* the API goroutine sends on startedChan and Start receives: the API server
\* serves and Start goes on to its select
ApiStarted ==
    /\ server.api = "listening"
    /\ server.at = "startedChan"
    /\ server' = [server EXCEPT !.api = "serving", !.at = "select"]
    /\ UNCHANGED <<store, nextId, cancelled, phase, opName, ep, ti, site, existing, attempt,
                   rpc, lastErr, result, store0, calls, waits, fails, returned, cErr, cOut,
                   config, changes, entry, diag, applied, arg, out>>

\* a request for /healthz or /readyz reaches the health server
HealthRequest ==
    /\ server.health = "serving"
    /\ Len(server.served) + server.conns < MaxRequests
    /\ server' = [server EXCEPT !.conns = server.conns + 1]
    /\ UNCHANGED <<store, nextId, cancelled, phase, opName, ep, ti, site, existing, attempt,
                   rpc, lastErr, result, store0, calls, waits, fails, returned, cErr, cOut,
                   config, changes, entry, diag, applied, arg, out>>

\* handleHealth or handleReady answers a request
HealthResponse ==
    /\ server.conns > 0
    /\ server.health \in {"serving", "closed"}
    /\ \E body \in Bodies :
          server' = [server EXCEPT !.conns = server.conns - 1,
                                   !.served = Append(server.served, body)]
    /\ UNCHANGED <<store, nextId, cancelled, phase, opName, ep, ti, site, existing, attempt,
                   rpc, lastErr, result, store0, calls, waits, fails, returned, cErr, cOut,
                   config, changes, entry, diag, applied, arg, out>>

\* Start, select: the context is done; shutdown begins and Shutdown closes the
\* listener of the health server
SelectDone ==
    /\ phase = "running" /\ opName = "Start"
    /\ server.at = "select"
    /\ cancelled
    /\ server' = [server EXCEPT !.at = "shutdown",
                                !.health = IF server.health = "serving" THEN "closed"
                                           ELSE server.health]
    /\ UNCHANGED <<store, nextId, cancelled, phase, opName, ep, ti, site, existing, attempt,
                   rpc, lastErr, result, store0, calls, waits, fails, returned, cErr, cOut,
                   config, changes, entry, diag, applied, arg, out>>

\* Start, select: an error has come from healthErrChan
SelectHealthErr ==
    /\ phase = "running" /\ opName = "Start"
    /\ server.at = "select"
    /\ server.healthErrChan # <<>>
    /\ phase' = "done"
    /\ result' = Wrap("health server error", server.healthErrChan[1])
    /\ server' = [server EXCEPT !.at = "returned", !.healthErrChan = <<>>]
    /\ UNCHANGED <<store, nextId, cancelled, opName, ep, ti, site, existing, attempt,
                   rpc, lastErr, store0, calls, waits, fails, returned, cErr, cOut,
                   config, changes, entry, diag, applied, arg, out>>

\* shutdown: healthServer.Shutdown returns nil once no request is at work, and
\* Start returns what shutdown returns
ShutdownIdle ==
    /\ phase = "running" /\ opName = "Start"
    /\ server.at = "shutdown"
    /\ server.conns = 0
    /\ phase' = "done"
    /\ result' = shutdown(Nil)
    /\ server' = [server EXCEPT !.at = "returned", !.shutdownErr = Nil]
    /\ UNCHANGED <<store, nextId, cancelled, opName, ep, ti, site, existing, attempt,
                   rpc, lastErr, store0, calls, waits, fails, returned, cErr, cOut,
                   config, changes, entry, diag, applied, arg, out>>

\* shutdown: the 30 seconds of its context are over with a request still at
\* work, and healthServer.Shutdown returns the error of the context
ShutdownTimeout ==
    /\ phase = "running" /\ opName = "Start"
    /\ server.at = "shutdown"
    /\ server.conns > 0
    /\ phase' = "done"
    /\ result' = shutdown(DeadlineExceeded)
    /\ server' = [server EXCEPT !.at = "returned", !.shutdownErr = DeadlineExceeded]
    /\ UNCHANGED <<store, nextId, cancelled, opName, ep, ti, site, existing, attempt,
                   rpc, lastErr, store0, calls, waits, fails, returned, cErr, cOut,
                   config, changes, entry, diag, applied, arg, out>>

\* the check of the context before an attempt is missing: the operation is
\* invoked under a context that is done
AttemptCancelledMutantInvokes ==
    /\ phase = "running" /\ rpc = "attempt"
    /\ cancelled
    /\ Resume(Nil, store, nextId, Append(calls, Invocation(Nil)), fails)

\* retryWithBackoff, top of the loop: the context is done
AttemptCancelled ==
    /\ phase = "running" /\ rpc = "attempt"
    /\ cancelled
    /\ Resume(CtxErr, store, nextId, calls, fails)

\* a success is not returned: the loop goes on to the delay
AttemptOkMutantKeepsGoing ==
    /\ phase = "running" /\ rpc = "attempt"
    /\ ~cancelled
    /\ attempt < maxRetryAttempts
    /\ rpc' = "wait"
    /\ calls' = Append(calls, Invocation(Nil))
    /\ UNCHANGED <<store, nextId, cancelled, phase, opName, ep, ti, site, existing,
                   attempt, lastErr, result, store0, waits, fails, returned, cErr, cOut,
                   config, changes, entry, diag, applied, arg, out, server>>

\* retryWithBackoff, top of the loop: the operation is invoked and succeeds
AttemptOk ==
    /\ phase = "running" /\ rpc = "attempt"
    /\ ~cancelled
    /\ ApiOf(site) = "Delete" => HasId(store, existing.ID)
    /\ LET s == CASE ApiOf(site) = "Create" ->
                        RemoteCreate(store, nextId, ep.DNSName, ep.Targets[ti])
                  [] ApiOf(site) = "Delete" -> RemoteDelete(store, existing.ID)
                  [] OTHER -> store
           n == IF ApiOf(site) = "Create" THEN nextId + 1 ELSE nextId
       IN  Resume(Nil, s, n, Append(calls, Invocation(Nil)), fails)

\* retryWithBackoff, top of the loop: the context is not done and the operation
\* is invoked; the context can be cancelled while the invocation is in flight
ContextChecked ==
    /\ phase = "running" /\ rpc = "attempt"
    /\ ~cancelled
    /\ rpc' = "invoke"
    /\ UNCHANGED <<store, nextId, cancelled, phase, opName, ep, ti, site, existing, attempt,
                   lastErr, result, store0, calls, waits, fails, returned, cErr, cOut,
                   config, changes, entry, diag, applied, arg, out, server>>

\* the invocation in flight succeeds, whatever has become of the context
InFlightOk ==
    /\ phase = "running" /\ rpc = "invoke"
    /\ ApiOf(site) = "Delete" => HasId(store, existing.ID)
    /\ LET s == CASE ApiOf(site) = "Create" ->
                        RemoteCreate(store, nextId, ep.DNSName, ep.Targets[ti])
                  [] ApiOf(site) = "Delete" -> RemoteDelete(store, existing.ID)
                  [] OTHER -> store
           n == IF ApiOf(site) = "Create" THEN nextId + 1 ELSE nextId
       IN  Resume(Nil, s, n, Append(calls, Invocation(Nil)), fails)

\* the invocation in flight, made under the context, fails with the context's
\* error once the context is done: the error is not retryable and is returned
InFlightCancelled ==
    /\ phase = "running" /\ rpc = "invoke"
    /\ cancelled
    /\ ~isRetryableError(CtxErr)
    /\ Resume(CtxErr, store, nextId, Append(calls, Invocation(CtxErr)), fails)

\* retryWithBackoff, top of the loop: the operation is invoked and fails; the
\* error is returned if it is not retryable or no retry is left, and else the
\* delay begins
AttemptErr ==
    /\ phase = "running" /\ rpc = "attempt"
    /\ ~cancelled
    /\ \E e \in ErrorsOf(site) \cup {ApiError(404)} :
          /\ \/ e \in ErrorsOf(site) /\ (site = "operation" \/ fails < MaxFails)
             \/ ApiOf(site) = "Delete" /\ ~HasId(store, existing.ID) /\ e = ApiError(404)
          /\ IF ~isRetryableError(e) \/ attempt >= maxRetryAttempts
             THEN Resume(e, store, nextId, Append(calls, Invocation(e)), fails + 1)
             ELSE /\ rpc' = "wait"
                  /\ lastErr' = e
                  /\ calls' = Append(calls, Invocation(e))
                  /\ fails' = fails + 1
                  /\ UNCHANGED <<store, nextId, cancelled, phase, opName, ep, ti, site,
                                 existing, attempt, result, store0, waits, returned,
                                 cErr, cOut,
                   config, changes, entry, diag, applied, arg, out, server>>

\* retryWithBackoff, top of the loop, the remote store being out of order for a
\* while: the operation is invoked and fails with a transient error
AttemptTransient ==
    /\ phase = "running" /\ rpc = "attempt"
    /\ ~cancelled
    /\ fails < MaxTransient
    /\ \E e \in TransientErrors :
          IF ~isRetryableError(e) \/ attempt >= maxRetryAttempts
          THEN Resume(e, store, nextId, Append(calls, Invocation(e)), fails + 1)
          ELSE /\ rpc' = "wait"
               /\ lastErr' = e
               /\ calls' = Append(calls, Invocation(e))
               /\ fails' = fails + 1
               /\ UNCHANGED <<store, nextId, cancelled, phase, opName, ep, ti, site,
                              existing, attempt, result, store0, waits, returned,
                              cErr, cOut, config, changes, entry, diag, applied, arg, out, server>>

\* the loop does not count its attempts
WaitElapsedMutantNoCount ==
    /\ phase = "running" /\ rpc = "wait"
    /\ rpc' = "attempt"
    /\ waits' = Append(waits, retryDelays[attempt + 1])
    /\ UNCHANGED <<store, nextId, cancelled, phase, opName, ep, ti, site, existing, attempt,
                   lastErr, result, store0, calls, fails, returned, cErr, cOut,
                   config, changes, entry, diag, applied, arg, out, server>>

\* retryWithBackoff, in the delay: the timer fires and the loop goes on
WaitElapsed ==
    /\ phase = "running" /\ rpc = "wait"
    /\ attempt' = attempt + 1
    /\ rpc' = "attempt"
    /\ waits' = Append(waits, retryDelays[attempt + 1])
    /\ UNCHANGED <<store, nextId, cancelled, phase, opName, ep, ti, site, existing,
                   lastErr, result, store0, calls, fails, returned, cErr, cOut,
                   config, changes, entry, diag, applied, arg, out, server>>

\* retryWithBackoff, in the delay: the context is done
WaitCancelled ==
    /\ phase = "running" /\ rpc = "wait"
    /\ cancelled
    /\ Resume(CtxErr, store, nextId, calls, fails)

(***************************************************************************)
(* Specifications.                                                         *)
(***************************************************************************)
InitFrame ==
    /\ nextId = Len(store) + 1
    /\ cancelled = FALSE
    /\ phase = "idle"
    /\ opName = "none"
    /\ ep = NoEndpoint
    /\ ti = 0
    /\ site = "none"
    /\ existing = NoRow
    /\ attempt = 0
    /\ rpc = "attempt"
    /\ lastErr = Nil
    /\ result = Nil
    /\ store0 = store
    /\ calls = <<>>
    /\ waits = <<>>
    /\ fails = 0
    /\ returned = <<>>
    /\ cOut = "none"
    /\ changes = NoChanges
    /\ entry = NoEntry
    /\ diag = <<>>
    /\ applied = <<>>
    /\ out = NoOutput

\* the provider's record operations against a remote store, under a context
\* that is not cancelled
Init ==
    /\ store \in InitStores /\ cErr = Nil /\ config = DefaultConfig /\ arg = NoEndpoint
    /\ InitFrame /\ server = NoServer

Next ==
    \/ CallCreateRecord
    \/ CallDeleteRecord
    \/ AttemptOk
    \/ AttemptErr
    \/ WaitElapsed

Spec == Init /\ [][Next]_vars

\* deleteRecord called on an endpoint, and called again on it when it has
\* returned
NextAgain ==
    \/ CallDeleteRecord
    \/ CallAgain
    \/ AttemptOk
    \/ AttemptErr
    \/ WaitElapsed

SpecAgain == Init /\ [][NextAgain]_vars

\* deleteRecord against a remote store that another writer removes rows from
NextRace ==
    \/ CallDeleteRecord
    \/ OtherWriterDeletes
    \/ AttemptOk
    \/ AttemptErr
    \/ WaitElapsed

SpecRace == Init /\ [][NextRace]_vars

\* retryWithBackoff on an operation of the caller's
InitRetry ==
    /\ store = <<>> /\ cErr = Nil /\ config = DefaultConfig /\ arg = NoEndpoint
    /\ InitFrame /\ server = NoServer

NextRetry ==
    \/ CallRetryWithBackoff
    \/ Cancel
    \/ AttemptCancelled
    \/ AttemptOk
    \/ AttemptErr
    \/ WaitElapsed
    \/ WaitCancelled

SpecRetry == InitRetry /\ [][NextRetry]_vars

\* every invocation of the operation returns and every delay ends, by the timer
\* or by the context
SpecRetryLive ==
    /\ SpecRetry
    /\ WF_vars(AttemptCancelled \/ AttemptOk \/ AttemptErr)
    /\ WF_vars(WaitElapsed \/ WaitCancelled)

\* ApplyChanges against a remote store
InitProvider ==
    /\ store \in BatchStores /\ cErr = Nil /\ config \in Configs /\ arg = NoEndpoint
    /\ InitFrame /\ server = NoServer

NextProvider ==
    \/ CallApplyChanges
    \/ AttemptOk
    \/ AttemptErr
    \/ WaitElapsed

SpecProvider == InitProvider /\ [][NextProvider]_vars

\* a synchronization pass against a remote store that answers every call
InitSync ==
    /\ store \in InitStores /\ cErr = Nil /\ config = DefaultConfig /\ arg = NoEndpoint
    /\ InitFrame /\ server = NoServer

NextSync ==
    \/ CallSync
    \/ AttemptOk

SpecSync == InitSync /\ [][NextSync]_vars

\* ApplyChanges against a remote store with transient failures
InitTransient ==
    /\ store \in BatchStores /\ cErr = Nil /\ config = DefaultConfig /\ arg = NoEndpoint
    /\ InitFrame /\ server = NoServer

NextTransient ==
    \/ CallApplyTransient
    \/ AttemptOk
    \/ AttemptTransient
    \/ WaitElapsed

SpecTransient == InitTransient /\ [][NextTransient]_vars

\* ApplyChanges under a context the caller cancels while it runs
NextCancel ==
    \/ CallApplyTransient
    \/ CancelWhileRunning
    \/ AttemptCancelled
    \/ ContextChecked
    \/ InFlightOk
    \/ InFlightCancelled
    \/ AttemptErr
    \/ WaitElapsed
    \/ WaitCancelled

SpecCancel == InitTransient /\ [][NextCancel]_vars

\* the record operations against a remote store that is out of order now and
\* then
NextPerCall ==
    \/ CallCreateRecord
    \/ CallDeleteRecord
    \/ AttemptOk
    \/ AttemptTransient
    \/ WaitElapsed

SpecPerCall == Init /\ [][NextPerCall]_vars

\* record operations called one after the other against a remote store
NextSequence ==
    \/ CallCreateRecord
    \/ CallDeleteRecord
    \/ CallNext
    \/ AttemptOk
    \/ AttemptErr
    \/ WaitElapsed

SpecSequence == Init /\ [][NextSequence]_vars

\* createRecord on records whose kind is written in lower case
NextLowerCase ==
    \/ CallCreateLowerCase
    \/ AttemptOk
    \/ AttemptErr
    \/ WaitElapsed

SpecLowerCase == Init /\ [][NextLowerCase]_vars

\* ApplyChanges of a provider with a domain filter
InitFilter ==
    /\ store \in FilterStores /\ cErr = Nil /\ config \in AdjustConfigs /\ arg = NoEndpoint
    /\ InitFrame /\ server = NoServer

NextFilter ==
    \/ CallApplyFiltered
    \/ AttemptOk

SpecFilter == InitFilter /\ [][NextFilter]_vars

\* Records against a remote store
InitFetch ==
    /\ store \in InitStores /\ cErr = Nil /\ config \in Configs /\ arg = NoEndpoint
    /\ InitFrame /\ server = NoServer

NextFetch ==
    \/ CallRecords
    \/ AttemptOk
    \/ AttemptErr
    \/ WaitElapsed

SpecFetch == InitFetch /\ [][NextFetch]_vars

\* NewProvider on a config, against a remote store, under context.Background()
InitConstruct ==
    /\ store \in BatchStores /\ cErr = Nil /\ config = DefaultConfig /\ arg \in ConfigArgs
    /\ InitFrame /\ server = NoServer

NextConstruct ==
    \/ CallNewProvider
    \/ AttemptOk
    \/ AttemptErr
    \/ WaitElapsed

SpecConstruct == InitConstruct /\ [][NextConstruct]_vars

\* the webhook server from NewServer on, under a context the caller can cancel
InitServer ==
    /\ store = <<>> /\ cErr = Nil /\ config = DefaultConfig /\ arg = NoEndpoint
    /\ InitFrame
    /\ server \in {NewServer(cfg) : cfg \in ServerConfigs}

NextServer ==
    \/ CallStart
    \/ Cancel
    \/ HealthListens
    \/ HealthListenFails
    \/ ApiListens
    \/ ApiListenFails
    \/ ApiStarted
    \/ HealthRequest
    \/ HealthResponse
    \/ SelectDone
    \/ SelectHealthErr
    \/ ShutdownIdle
    \/ ShutdownTimeout

SpecServer == InitServer /\ [][NextServer]_vars

\* the select of Start goes on when one of its cases is ready, and Shutdown
\* returns: when no request is at work or when its 30 seconds are over
SpecServerLive ==
    /\ SpecServer
    /\ WF_vars(SelectDone \/ SelectHealthErr)
    /\ WF_vars(ShutdownIdle \/ ShutdownTimeout)

\* FindRewriteByName against a remote store
NextLookup ==
    \/ CallFindRewriteByName
    \/ AttemptOk
    \/ AttemptErr
    \/ WaitElapsed

SpecLookup == Init /\ [][NextLookup]_vars

\* AdjustEndpoints as a function of the domain filter and the endpoints
InitAdjust ==
    /\ store = <<>> /\ cErr = Nil /\ config \in AdjustConfigs
    /\ arg \in SeqsUpTo(AdjustEndpointSet, MaxEndpoints)
    /\ InitFrame /\ server = NoServer

NextAdjust == CallAdjustEndpoints

SpecAdjust == InitAdjust /\ [][NextAdjust]_vars

\* parseOverwriteAnnotation as a function of the endpoint
InitParse ==
    /\ store = <<>> /\ cErr = Nil /\ config = DefaultConfig /\ arg \in ParseInputs
    /\ InitFrame /\ server = NoServer

NextParse == CallParseOverwriteAnnotation

SpecParse == InitParse /\ [][NextParse]_vars

\* isRetryableError as a function of its argument: the inputs are nil, a
\* net.Error timeout and the messages put together from up to MaxFrags of
\* these fragments
Fragments ==
    {Sprintf(c) : c \in {400, 401, 403, 404, 429, 500, 502, 503, 504}}
        \cup {StatusText(c) : c \in {400, 401, 403, 404, 429, 500, 502, 503, 504}}
        \cup {networkErrorPatterns[i] : i \in 1..Len(networkErrorPatterns)}
        \cup { <<"Connection", " ", "refused">>,
               <<"some", " ", "random", " ", "error">>,
               <<"5", "0", "0", "3">>,
               <<" ">> }

RECURSIVE Concat(_)
\* the fragments of a list, one after the other
Concat(fs) == IF fs = <<>> THEN <<>> ELSE Head(fs) \o Concat(Tail(fs))

Messages == {Concat(fs) : fs \in SeqsUpTo(Fragments, MaxFrags)}

ClassifyInputs ==
    {Nil, NetTimeoutError(<<"i/o", " ", "deadline", " ", "reached">>)}
        \cup {NewError(m) : m \in Messages}

\* isRetryableError is called on the error at hand
Classify ==
    /\ cOut = "none"
    /\ cOut' = IF isRetryableError(cErr) THEN "true" ELSE "false"
    /\ UNCHANGED <<store, nextId, cancelled, phase, opName, ep, ti, site, existing,
                   attempt, rpc, lastErr, result, store0, calls, waits, fails, returned,
                   cErr, config, changes, entry, diag, applied, arg, out, server>>

InitClassify ==
    /\ store = <<>> /\ cErr \in ClassifyInputs /\ config = DefaultConfig /\ arg = NoEndpoint
    /\ InitFrame /\ server = NoServer

NextClassify == Classify

SpecClassify == InitClassify /\ [][NextClassify]_vars

(***************************************************************************)
(* What the claims speak of.                                               *)
(***************************************************************************)
Range(q) == {q[i] : i \in 1..Len(q)}

\* the positions of the rows of s with the name and the kind
RowsFor(s, name, kind) == {i \in 1..Len(s) : s[i].Name = name /\ s[i].Type = kind}

Ids(s) == {s[i].ID : i \in 1..Len(s)}

\* the values the endpoint carries under the overwrite annotation key
MarkerValues(p) ==
    {p.ProviderSpecific[i].Value :
        i \in {j \in 1..Len(p.ProviderSpecific) :
                  p.ProviderSpecific[j].Name = overwriteAnnotationKey}}

TrueSpellings == {"true", "True", "TRUE"}

\* the marker is absent or is not "true" in any letter case
NotAuthorized(p) == MarkerValues(p) \cap TrueSpellings = {}

SupportedKinds == {"A", "AAAA", "CNAME"}

CallsTo(api) == {i \in 1..Len(calls) : calls[i].api = api}

\* the remote call the operation made last has failed: its last attempt failed
\* and was neither retried nor followed by another call (an operation returns on
\* the first remote call that fails, so this is its only failed call)
LastCallFailed == calls # <<>> /\ calls[Len(calls)].err # Nil /\ rpc # "wait"

\* every remote call made has succeeded, at the first attempt or at a later one
AllCallsSucceeded == ~LastCallFailed

\* every list call made has succeeded, at the first attempt or at a later one
ListCallsSucceeded == ~(LastCallFailed /\ calls[Len(calls)].api = "List")

Called(name) == opName = name /\ phase \in {"running", "done"}

Returned(name) == opName = name /\ phase = "done"

\* the record's (name, kind) had a row in the store when the operation was called
HadRow == RowsFor(store0, ep.DNSName, ep.RecordType) # {}

\* C1 as stated: createRecord for a record without an authorizing marker, against a
\* store that holds a row with the record's name and kind, issues no create and no
\* delete call, leaves the store as it was and returns nil.
C1_Original ==
    (Returned("createRecord") /\ NotAuthorized(ep) /\ HadRow)
        => /\ CallsTo("Create") = {} /\ CallsTo("Delete") = {}
           /\ store = store0
           /\ result = Nil

\* C1 amended: under the same conditions createRecord issues no create and no
\* delete call and leaves the store as it was, at every point of its run; it returns
\* nil when the list calls of its lookups succeed (when one fails it returns an error).
C1_DefaultDeny ==
    (Called("createRecord") /\ NotAuthorized(ep) /\ HadRow)
        => /\ CallsTo("Create") = {} /\ CallsTo("Delete") = {}
           /\ store = store0
           /\ (phase = "done" /\ ListCallsSucceeded) => result = Nil
           /\ (phase = "done" /\ ~ListCallsSucceeded) => result # Nil

\* a blocked overwrite: the lookup found the row and createRecord returned nil
C1_Witness ==
    /\ Returned("createRecord") /\ NotAuthorized(ep) /\ HadRow
    /\ Len(ep.Targets) = 1
    /\ store0[CHOOSE i \in RowsFor(store0, ep.DNSName, ep.RecordType) : TRUE].Content
          # ep.Targets[1]
    /\ CallsTo("List") # {} /\ ListCallsSucceeded
    /\ result = Nil /\ store = store0

\* C2: given a store with exactly one row R1 for (name, kind) and a single-target
\* record for that name and kind whose marker is "true", after createRecord returns
\* nil the store holds exactly one row for (name, kind), its target is the record's
\* target, and no row has R1's id.
C2_OverwriteReplaces ==
    (/\ Returned("createRecord") /\ result = Nil
     /\ Len(ep.Targets) = 1
     /\ MarkerValues(ep) = {"true"}
     /\ Cardinality(RowsFor(store0, ep.DNSName, ep.RecordType)) = 1)
        => LET r1 == store0[CHOOSE i \in RowsFor(store0, ep.DNSName, ep.RecordType) : TRUE]
               now == RowsFor(store, ep.DNSName, ep.RecordType)
           IN  /\ Cardinality(now) = 1
               /\ \A i \in now : store[i].Content = ep.Targets[1]
               /\ r1.ID \notin Ids(store)

\* an authorized overwrite of a row with another target has returned nil
C2_Witness ==
    /\ Returned("createRecord") /\ result = Nil
    /\ Len(ep.Targets) = 1
    /\ MarkerValues(ep) = {"true"}
    /\ Cardinality(RowsFor(store0, ep.DNSName, ep.RecordType)) = 1
    /\ \A i \in RowsFor(store0, ep.DNSName, ep.RecordType) : store0[i].Content # ep.Targets[1]
    /\ CallsTo("Delete") # {} /\ CallsTo("Create") # {}

\* C3: createRecord on a single-target record of a supported kind, against a store
\* with no row of the record's name and kind and with every remote call succeeding,
\* creates exactly one row carrying the record's name and target, issues no delete
\* call, and returns nil.
C3_FreshCreate ==
    (/\ Returned("createRecord")
     /\ Len(ep.Targets) = 1
     /\ ep.RecordType \in SupportedKinds
     /\ ~HadRow
     /\ AllCallsSucceeded)
        => /\ Cardinality({i \in CallsTo("Create") : calls[i].err = Nil}) = 1
           /\ CallsTo("Delete") = {}
           /\ Len(store) = Len(store0) + 1
           /\ SubSeq(store, 1, Len(store0)) = store0
           /\ store[Len(store)].Name = ep.DNSName
           /\ store[Len(store)].Content = ep.Targets[1]
           /\ store[Len(store)].ID \notin Ids(store0)
           /\ result = Nil

\* a fresh create into a store that holds other rows has returned
C3_Witness ==
    /\ Returned("createRecord")
    /\ Len(ep.Targets) = 1
    /\ ep.RecordType \in SupportedKinds
    /\ ~HadRow
    /\ AllCallsSucceeded
    /\ store0 # <<>>
    /\ Len(store) = Len(store0) + 1
    /\ result = Nil

\* C4 as stated: createRecord on a record with k >= 2 distinct targets, against a
\* store with no row of the record's (name, kind) and with every remote call
\* succeeding, leaves exactly k rows for (name, kind), one for each target, with
\* or without the overwrite marker.
C4_OneRowPerTarget ==
    (/\ Returned("createRecord")
     /\ ep.RecordType \in SupportedKinds
     /\ Len(ep.Targets) >= 2
     /\ Cardinality(Range(ep.Targets)) = Len(ep.Targets)
     /\ ~HadRow
     /\ AllCallsSucceeded)
        => LET now == RowsFor(store, ep.DNSName, ep.RecordType)
           IN  /\ Cardinality(now) = Len(ep.Targets)
               /\ \A j \in 1..Len(ep.Targets) : \E i \in now : store[i].Content = ep.Targets[j]

C6_DeleteByTarget ==
    Called("deleteRecord")
        => \A i \in 1..Len(store0) :
              store0[i].ID \notin Ids(store)
                 => /\ store0[i].Name = ep.DNSName
                    /\ store0[i].Type = ep.RecordType
                    /\ store0[i].Content \in Range(ep.Targets)

\* the message of the error has one of the status codes in it
CarriesRetryableCode(e) ==
    \E d \in { <<"4", "2", "9">>, <<"5", "0", "0">>, <<"5", "0", "2">>,
               <<"5", "0", "3">>, <<"5", "0", "4">> } : Contains(e.msg, d)

CarriesTerminalCode(e) ==
    \E d \in { <<"4", "0", "0">>, <<"4", "0", "1">>, <<"4", "0", "3">>,
               <<"4", "0", "4">> } : Contains(e.msg, d)

\* the message has the text of a retryable status in it
CarriesRetryableText(e) ==
    \E x \in { <<"Too", " ", "Many", " ", "Requests">>,
               <<"Internal", " ", "Server", " ", "Error">>,
               <<"Bad", " ", "Gateway">>,
               <<"Service", " ", "Unavailable">>,
               <<"Gateway", " ", "Timeout">> } : Contains(e.msg, x)

\* the error is a network timeout or its message has a network-error pattern in
\* it, in any letter case
CarriesNetworkPattern(e) ==
    \/ e.netTimeout
    \/ \E x \in { <<"timeout">>, <<"connection", " ", "refused">>,
                  <<"connection", " ", "reset">>, <<"no", " ", "such", " ", "host">>,
                  <<"temporary", " ", "failure">>, <<"eof">>, <<"broken", " ", "pipe">> } :
          Contains(ToLower(e.msg), x)

\* an error the claims call retryable
ClaimRetryable(e) ==
    e # Nil /\ (CarriesRetryableCode(e) \/ CarriesRetryableText(e) \/ CarriesNetworkPattern(e))

\* an error the claims call not retryable: it carries 400, 401, 403 or 404, or it
\* matches no retryable code and no network pattern
ClaimTerminal(e) == e # Nil /\ (CarriesTerminalCode(e) \/ ~ClaimRetryable(e))

\* C7: when every attempt of the operation fails with a retryable error (a message
\* carrying 429, 500, 502, 503 or 504) and the context is never cancelled,
\* retryWithBackoff invokes the operation exactly 4 times and returns the error of
\* the 4th attempt.
C7_RetryExhaustion ==
    (/\ Returned("retryWithBackoff")
     /\ ~cancelled
     /\ \A i \in 1..Len(calls) : calls[i].err # Nil /\ CarriesRetryableCode(calls[i].err))
        => (Len(calls) = 4 /\ result = calls[4].err)

\* four attempts have failed with retryable errors, the last one with another
\* error than the first
C7_Witness ==
    /\ Returned("retryWithBackoff")
    /\ ~cancelled
    /\ Len(calls) = 4
    /\ calls[1].err = ApiError(503)
    /\ calls[4].err = ApiError(429)
    /\ \A i \in 1..4 : CarriesRetryableCode(calls[i].err)
    /\ result = ApiError(429)
    /\ waits = <<1, 2, 4>>

\* C8 as stated: an attempt that fails with an error that is not retryable (a
\* message carrying 400, 401, 403 or 404, or an error matching no retryable code or
\* network pattern) is followed by no delay and no further attempt, and
\* retryWithBackoff returns that error.
C8_TerminalFailFast ==
    Called("retryWithBackoff")
        => \A i \in 1..Len(calls) :
              ClaimTerminal(calls[i].err)
                 => (i = Len(calls) /\ phase = "done" /\ result = calls[i].err)

\* C9 as stated: isRetryableError returns false for nil, for every error whose
\* message carries 400, 401, 403 or 404 whatever else it contains, and for every
\* error that matches no retryable code and no network pattern; it returns true
\* for every error carrying 429, 500, 502, 503 or 504 or a network-error pattern.
C9_Classification ==
    cOut # "none"
        => /\ cErr = Nil => cOut = "false"
           /\ (cErr # Nil /\ CarriesTerminalCode(cErr)) => cOut = "false"
           /\ (cErr # Nil /\ ~ClaimRetryable(cErr)) => cOut = "false"
           /\ (cErr # Nil /\ (CarriesRetryableCode(cErr) \/ CarriesNetworkPattern(cErr)))
                 => cOut = "true"

\* C10: if attempts 1..k (0 <= k <= 3) fail with retryable errors and attempt k+1
\* succeeds, retryWithBackoff invokes the operation exactly k+1 times and returns
\* nil; the operation is never invoked again after an attempt has succeeded.
C10_SuccessShortCircuits ==
    Called("retryWithBackoff")
        => /\ \A i \in 1..Len(calls) :
                 calls[i].err = Nil
                    => (i = Len(calls) /\ i <= 4 /\ phase = "done" /\ result = Nil)
           /\ \A k \in 0..3 :
                 (/\ phase = "done" /\ ~cancelled
                  /\ Len(calls) > k
                  /\ \A i \in 1..k : ClaimRetryable(calls[i].err)
                  /\ calls[k + 1].err = Nil)
                    => (Len(calls) = k + 1 /\ result = Nil)

\* three attempts have failed with retryable errors and the fourth has succeeded
C10_Witness ==
    /\ Returned("retryWithBackoff")
    /\ ~cancelled
    /\ Len(calls) = 4
    /\ \A i \in 1..3 : calls[i].err = ApiError(503)
    /\ calls[4].err = Nil
    /\ result = Nil

\* C11: once the context is cancelled, before an attempt starts or during an
\* inter-attempt delay, retryWithBackoff invokes the operation no more and returns
\* the context's cancellation error; a context cancelled before the call gives
\* zero invocations.
C11_Cancellation ==
    [][(cancelled /\ opName' = "retryWithBackoff")
          => /\ calls' = calls
             /\ phase = "idle" => calls' = <<>>
             /\ phase' = "done" => result' = CtxErr]_vars

\* the context was cancelled during the delay after the second failed attempt
C11_Witness ==
    /\ Returned("retryWithBackoff")
    /\ cancelled
    /\ Len(calls) = 2
    /\ waits = <<1>>
    /\ isRetryableError(calls[2].err)
    /\ result = CtxErr

\* the place of a list in the order the claims give: creates, updates, deletes
ListRank(list) ==
    CASE list = "Create" -> 1
      [] list = "Update" -> 2
      [] list = "Delete" -> 3
      [] OTHER -> 0

\* ApplyChanges runs or has returned, and it is not a dry run
Applying == opName = "ApplyChanges" /\ phase \in {"running", "done"} /\ ~config.DryRun

\* the remote calls made for entries of a list
CallsFor(list) == {i \in 1..Len(calls) : calls[i].entry.list = list}

\* C12: in a non-dry-run ApplyChanges every remote call made for a Create entry
\* precedes every remote call made for an Update entry, which precedes every remote
\* call made for a Delete entry; the entries of a list are processed in list order
\* and the targets of a record in list order.
C12_ChangeSetOrdering ==
    Applying
        => \A i, j \in 1..Len(calls) :
              i < j
                 => /\ ListRank(calls[i].entry.list) <= ListRank(calls[j].entry.list)
                    /\ calls[i].entry.list = calls[j].entry.list
                          => calls[i].entry.i <= calls[j].entry.i
                    /\ calls[i].entry = calls[j].entry
                          => calls[i].target <= calls[j].target

\* a changeset with an entry in each list has been applied, one of its records
\* having two targets, with remote calls made for each entry and both targets
C12_Witness ==
    /\ Applying /\ phase = "done" /\ result = Nil
    /\ Len(changes.Create) = 1 /\ Len(changes.UpdateOld) = 1 /\ Len(changes.Delete) = 1
    /\ CallsFor("Create") # {} /\ CallsFor("Update") # {} /\ CallsFor("Delete") # {}
    /\ \E i \in 1..Len(calls) : calls[i].target = 2

\* the remote call was made for the entry or for an entry before it
UpTo(call, list, i) ==
    \/ ListRank(call.entry.list) < ListRank(list)
    \/ call.entry.list = list /\ call.entry.i <= i

\* the name of the record of an entry (of the old record, for an update)
RecordName(list, i) ==
    CASE list = "Create" -> changes.Create[i].DNSName
      [] list = "Update" -> changes.UpdateOld[i].DNSName
      [] list = "Delete" -> changes.Delete[i].DNSName
      [] OTHER -> ""

\* the message is some text with the name in it, followed by the message of e
WrapsWithName(msg, name, e) ==
    /\ Len(msg) > Len(e.msg)
    /\ SubSeq(msg, Len(msg) - Len(e.msg) + 1, Len(msg)) = e.msg
    /\ \E k \in 1..(Len(msg) - Len(e.msg)) : msg[k] = name

\* C13: in a non-dry-run ApplyChanges the first createRecord, updateRecord or
\* deleteRecord that returns an error ends the call: ApplyChanges returns that error,
\* wrapped with the name of the record, and no remote call is made for a later entry
\* of the Create, Update or Delete lists; without such an error it returns nil.
C13_AbortOnFirstError ==
    Applying
        => /\ \A k \in 1..Len(applied) :
                 applied[k].err # Nil
                    => /\ k = Len(applied)
                       /\ phase = "done"
                       /\ result # Nil
                       /\ WrapsWithName(result.msg, RecordName(applied[k].list, applied[k].i),
                                        applied[k].err)
                       /\ \A c \in 1..Len(calls) :
                             UpTo(calls[c], applied[k].list, applied[k].i)
           /\ (phase = "done" /\ \A k \in 1..Len(applied) : applied[k].err = Nil)
                 => result = Nil

\* the record operation of the first entry has failed at a remote call, with
\* entries behind it in the changeset that would have made remote calls
C13_Witness ==
    /\ Applying /\ phase = "done" /\ result # Nil
    /\ Len(applied) = 1 /\ applied[1].list = "Create" /\ applied[1].err # Nil
    /\ calls # <<>>
    /\ Len(changes.Create) = 1 /\ Len(changes.UpdateOld) = 1 /\ Len(changes.Delete) = 1

RECURSIVE Replay(_, _)
\* the store s after the successful ones of the remote calls cs, in their order
Replay(s, cs) ==
    IF cs = <<>> THEN s
    ELSE LET c == Head(cs)
             t == IF c.err # Nil THEN s
                  ELSE IF c.api = "Create"
                       THEN Append(s, [ID |-> c.id, Name |-> c.name,
                                       Type |-> RemoteType(c.content), Content |-> c.content])
                  ELSE IF c.api = "Delete"
                       THEN SelectSeq(s, LAMBDA row : row.ID # c.id)
                  ELSE s
         IN  Replay(t, Tail(cs))

\* C14: when a non-dry-run ApplyChanges aborts on an error, every remote mutation it
\* applied for earlier entries is still in the store when it returns (the store is
\* the store before the call with the successful creates and deletes applied), and
\* no create or delete call follows the failed call.
C14_NoAtomicity ==
    (Applying /\ phase = "done" /\ result # Nil)
        => /\ store = Replay(store0, calls)
           /\ calls # <<>> => calls[Len(calls)].err # Nil

\* ApplyChanges has created the row of its Create entry and then aborted in a later
\* entry: the created row is in the store
C14_Witness ==
    /\ Applying /\ phase = "done" /\ result # Nil
    /\ Len(applied) >= 2 /\ applied[1].list = "Create" /\ applied[1].err = Nil
    /\ \E i \in CallsFor("Create") :
          /\ calls[i].api = "Create" /\ calls[i].err = Nil
          /\ calls[i].id \in Ids(store) /\ calls[i].id \notin Ids(store0)

\* ApplyChanges runs or has returned, in a dry run
Previewing == opName = "ApplyChanges" /\ phase \in {"running", "done"} /\ config.DryRun

\* C15: with DryRun set, ApplyChanges issues no create and no delete call, whatever
\* the changeset (the remote store stays as it was), and returns nil, also when the
\* list call of the preview fails and when the provider has no client.
C15_DryRun ==
    Previewing
        => /\ CallsTo("Create") = {} /\ CallsTo("Delete") = {}
           /\ store = store0
           /\ phase = "done" => result = Nil
           /\ ~config.Client => calls = <<>>

\* a dry run over a changeset with an entry in each list, against a store with a
\* row, has returned nil after the list call of its preview had failed
C15_Witness ==
    /\ Previewing /\ phase = "done" /\ result = Nil
    /\ config.Client
    /\ Len(changes.Create) = 1 /\ Len(changes.UpdateOld) = 1 /\ Len(changes.Delete) = 1
    /\ store0 # <<>>
    /\ calls # <<>> /\ calls[Len(calls)].api = "List" /\ calls[Len(calls)].err # Nil

\* the c-th invocation in the history failed and was not tried again: the remote
\* call it belongs to has returned its error
FinalFailure(c) ==
    /\ calls[c].err # Nil
    /\ ~(c < Len(calls) /\ calls[c + 1].attempt = calls[c].attempt + 1)
    /\ ~(c = Len(calls) /\ phase = "running"
            /\ (rpc = "wait" \/ attempt = calls[c].attempt + 1))

\* the deleteRecord of the i-th update has failed at a remote call (the list call
\* of its lookup or the delete call)
DeleteOfUpdateFailed(i) ==
    \E c \in 1..Len(calls) :
        /\ calls[c].entry = [list |-> "Update", i |-> i, leg |-> "delete"]
        /\ FinalFailure(c)

\* the createRecord of the i-th update has failed at a remote call
CreateOfUpdateFailed(i) ==
    \E c \in 1..Len(calls) :
        /\ calls[c].entry = [list |-> "Update", i |-> i, leg |-> "create"]
        /\ FinalFailure(c)

\* the remote calls made by the createRecord of the i-th update
CreateLegCalls(i) ==
    {c \in 1..Len(calls) : calls[c].entry = [list |-> "Update", i |-> i, leg |-> "create"]}

\* updateRecord has returned an error for the i-th update
UpdateReturnedError(i) ==
    /\ applied # <<>>
    /\ applied[Len(applied)].list = "Update" /\ applied[Len(applied)].i = i
    /\ applied[Len(applied)].err # Nil

\* C16: in updateRecord, if deleting the old record fails (the list call of the
\* lookup or the delete call returns an error), no remote call is made for the new
\* record, a create call in particular, and updateRecord returns an error.
C16_UpdateAbortsBeforeCreate ==
    Applying
        => \A i \in 1..Len(changes.UpdateOld) :
              DeleteOfUpdateFailed(i)
                 => /\ CreateLegCalls(i) = {}
                    /\ \A c \in CallsTo("Create") : calls[c].entry.list # "Update"
                                                       \/ calls[c].entry.i # i
                    /\ phase = "done"
                    /\ UpdateReturnedError(i)

\* the delete call for the old record of an update has failed, the new record being
\* one createRecord would have made remote calls for
C16_Witness ==
    /\ Applying /\ phase = "done"
    /\ Len(changes.UpdateOld) = 1
    /\ DeleteOfUpdateFailed(1)
    /\ calls[Len(calls)].api = "Delete"
    /\ changes.UpdateNew[1].Targets # changes.UpdateOld[1].Targets
    /\ UpdateReturnedError(1)

\* the rows of s that carry the name, the kind and one of the targets of record p
RowsOf(s, p) ==
    {r \in 1..Len(s) : /\ s[r].Name = p.DNSName /\ s[r].Type = p.RecordType
                       /\ s[r].Content \in Range(p.Targets)}

\* C17 as stated: in updateRecord, if deleting the old record succeeds and creating
\* the new record fails, updateRecord returns a single error, emits the
\* inconsistent-state diagnostic, and leaves the store with the old row deleted and
\* no row for the new value.
C17_Original ==
    Applying
        => \A i \in 1..Len(changes.UpdateOld) :
              CreateOfUpdateFailed(i)
                 => /\ phase = "done"
                    /\ UpdateReturnedError(i)
                    /\ diag = <<InconsistentState(changes.UpdateOld[i], changes.UpdateNew[i])>>
                    /\ RowsOf(store, changes.UpdateOld[i]) = {}
                    /\ RowsOf(store, changes.UpdateNew[i]) = {}

\* C17 amended: in updateRecord, if deleting the old record succeeds and creating
\* the new record fails, updateRecord returns a single error, emits the
\* inconsistent-state diagnostic once and makes no further remote call (nothing is
\* rolled back: the store keeps every delete and create that had succeeded).  When
\* the store held at most one row of the record's name and kind before the update
\* and the new record has one target, the store is left without a row of that name
\* and kind; a new record with several targets can be left partly created.
C17_PartialUpdate ==
    Applying
        => \A i \in 1..Len(changes.UpdateOld) :
              CreateOfUpdateFailed(i)
                 => LET old == changes.UpdateOld[i]
                        new == changes.UpdateNew[i]
                    IN  /\ phase = "done"
                        /\ UpdateReturnedError(i)
                        /\ diag = <<InconsistentState(old, new)>>
                        /\ calls[Len(calls)].err # Nil
                        /\ store = Replay(store0, calls)
                        /\ (/\ changes.Create = <<>> /\ i = 1
                            /\ Len(new.Targets) = 1
                            /\ Cardinality(RowsFor(store0, old.DNSName, old.RecordType)) <= 1)
                              => /\ RowsFor(store, old.DNSName, old.RecordType) = {}
                                 /\ RowsFor(store, new.DNSName, new.RecordType) = {}

\* the row of the old record has been deleted and the create call for the new
\* record, of another target, has failed
C17_Witness ==
    /\ Applying /\ phase = "done"
    /\ changes.Create = <<>> /\ Len(changes.UpdateOld) = 1
    /\ CreateOfUpdateFailed(1)
    /\ calls[Len(calls)].api = "Create"
    /\ RowsOf(store0, changes.UpdateOld[1]) # {}
    /\ changes.UpdateNew[1].Targets # changes.UpdateOld[1].Targets
    /\ Len(changes.UpdateNew[1].Targets) = 1
    /\ store = <<>>
    /\ diag # <<>>

\* the list call of Records has failed
ListFailed == \E c \in 1..Len(calls) : FinalFailure(c)

\* C20: Records returns one endpoint per remote row, in the order of the rows, each
\* with the row's name and kind and exactly one target, the row's content (rows
\* sharing name and kind come as separate entries); an empty store gives an empty
\* list, not nil, with a nil error; Records issues no create or delete call; when
\* the list call fails or the provider has no client it returns nil endpoints and
\* an error.
C20_Fetch ==
    (opName = "Records" /\ phase \in {"running", "done"})
        => /\ CallsTo("Create") = {} /\ CallsTo("Delete") = {}
           /\ store = store0
           /\ (phase = "done" /\ config.Client /\ ~ListFailed)
                 => /\ result = Nil
                    /\ out.kind = "slice"
                    /\ Len(out.eps) = Len(store)
                    /\ \A i \in 1..Len(store) :
                          /\ out.eps[i].DNSName = store[i].Name
                          /\ out.eps[i].RecordType = store[i].Type
                          /\ out.eps[i].Targets = <<store[i].Content>>
           /\ (phase = "done" /\ (~config.Client \/ ListFailed))
                 => (result # Nil /\ out = NilEndpoints)
           /\ ~config.Client => calls = <<>>

\* Records has returned two endpoints for two rows of one name and kind with
\* different contents
C20_Witness ==
    /\ opName = "Records" /\ phase = "done" /\ result = Nil
    /\ Len(store) = 2
    /\ store[1].Name = store[2].Name /\ store[1].Type = store[2].Type
    /\ store[1].Content # store[2].Content
    /\ Len(out.eps) = 2
    /\ out.eps[1].Targets # out.eps[2].Targets

\* the spellings of the supported kinds
KindSpellings == {"A", "a", "AAAA", "aaaa", "Aaaa", "CNAME", "cname", "Cname"}

\* the name ends with the entry
EndsWith(name, item) == \E k \in 0..Len(name) : SubSeq(name, k + 1, Len(name)) = item

\* the entry with its leading dot stripped
Undotted(item) == IF item # <<>> /\ item[1] = "." THEN Tail(item) ELSE item

\* the record is one the candidate filter keeps
KeptRecord(e) ==
    /\ e.RecordType \in KindSpellings
    /\ \/ config.DomainFilter = <<>>
       \/ \E i \in 1..Len(config.DomainFilter) :
             \/ EndsWith(e.DNSName, config.DomainFilter[i])
             \/ e.DNSName = Undotted(config.DomainFilter[i])

RECURSIVE KeptOf(_)
\* the records of a list the candidate filter keeps, in the order of the list
KeptOf(es) ==
    IF es = <<>> THEN <<>>
    ELSE (IF KeptRecord(Head(es)) THEN <<Head(es)>> ELSE <<>>) \o KeptOf(Tail(es))

\* C18: AdjustEndpoints keeps a record exactly when its kind equals a supported kind,
\* compared case-insensitively, and the domain allow-list is empty or the record's
\* name ends with an allow-list entry or equals an entry with its leading dot
\* stripped; the output has the kept records of the input in input order and
\* nothing else, an empty input gives an empty output, and no error is returned.
C18_CandidateFilter ==
    (opName = "AdjustEndpoints" /\ phase = "done")
        => /\ result = Nil
           /\ out.kind = "slice"
           /\ out.eps = KeptOf(arg)
           /\ arg = <<>> => out.eps = <<>>

\* of two records of a supported kind the first is dropped for its name and the
\* second kept because its name is an allow-list entry without the leading dot
C18_Witness ==
    /\ opName = "AdjustEndpoints" /\ phase = "done"
    /\ config.DomainFilter = << <<".", "example", ".", "com">> >>
    /\ Len(arg) = 2
    /\ arg[1].RecordType = "a" /\ arg[1].DNSName = <<"example", ".", "org">>
    /\ arg[2].RecordType = "cname" /\ arg[2].DNSName = <<"example", ".", "com">>
    /\ out.eps = <<arg[2]>>

\* the properties of the record under the overwrite annotation key
Markers(p) ==
    SelectSeq(p.ProviderSpecific, LAMBDA prop : prop.Name = overwriteAnnotationKey)

\* C19 as stated: parseOverwriteAnnotation returns true exactly when the record
\* carries a property whose name is the overwrite annotation key and whose value
\* equals "true" ignoring letter case; it returns false for a nil record, an absent
\* marker, a marker under another key and every other value.
C19_Original ==
    (opName = "parseOverwriteAnnotation" /\ phase = "done")
        => (out.kind = "true"
               <=> /\ arg # NilEndpoint
                   /\ \E i \in 1..Len(arg.ProviderSpecific) :
                         /\ arg.ProviderSpecific[i].Name = overwriteAnnotationKey
                         /\ arg.ProviderSpecific[i].Value \in TrueSpellings)

\* C19 amended: parseOverwriteAnnotation returns true exactly when the first
\* property of the record whose name is the overwrite annotation key has a value
\* equal to "true" ignoring letter case (later properties under the key are not
\* looked at); it returns false for a nil record, an absent marker, a marker under
\* another key and every other value.
C19_OverwritePolicy ==
    (opName = "parseOverwriteAnnotation" /\ phase = "done")
        => /\ out.kind \in {"true", "false"}
           /\ out.kind = "true"
                 <=> /\ arg # NilEndpoint
                     /\ Markers(arg) # <<>>
                     /\ Markers(arg)[1].Value \in TrueSpellings

\* the marker comes after a property under another key and is "TRUE"
C19_Witness ==
    /\ opName = "parseOverwriteAnnotation" /\ phase = "done"
    /\ arg # NilEndpoint
    /\ Len(arg.ProviderSpecific) = 2
    /\ arg.ProviderSpecific[1].Name # overwriteAnnotationKey
    /\ arg.ProviderSpecific[1].Value = "true"
    /\ arg.ProviderSpecific[2].Name = overwriteAnnotationKey
    /\ arg.ProviderSpecific[2].Value = "TRUE"
    /\ out.kind = "true"

\* the rows of s are pairwise different in name, kind or target
NoDuplicates(s) ==
    \A i, j \in 1..Len(s) :
        (i # j) => ~(/\ s[i].Name = s[j].Name /\ s[i].Type = s[j].Type
                     /\ s[i].Content = s[j].Content)

\* C21 as stated: starting from a store with at most one row per (name, kind,
\* target), after every non-dry-run ApplyChanges call that returns nil the store
\* holds at most one row per (name, kind, target), the remote store assigning each
\* created row's kind from the shape of its target.
C21_NoPersistentDuplicates ==
    (Applying /\ phase = "done" /\ result = Nil /\ NoDuplicates(store0))
        => NoDuplicates(store)

\* the delete call deleteRecord made last was answered with not found (404), the
\* row it was to remove being gone from the store
DeleteAnsweredNotFound ==
    /\ calls # <<>>
    /\ calls[Len(calls)].api = "Delete"
    /\ calls[Len(calls)].err = ApiError(404)
    /\ calls[Len(calls)].id \notin Ids(store)

\* C22 as stated: deleteRecord returns nil whenever the row it is to remove is
\* already absent, both when the lookup finds no row and when the remote delete call
\* reports not found (404) because another writer removed the row between the
\* lookup and the delete call.
C22_NotFoundIsSuccess ==
    Returned("deleteRecord")
        => /\ (calls # <<>> /\ AllCallsSucceeded /\ CallsTo("Delete") = {}) => result = Nil
           /\ DeleteAnsweredNotFound => result = Nil

\* the record the operation of an entry decides on: the record of a Create or
\* Delete entry, the old record of an Update entry
DecidingRecord(list, i) ==
    CASE list = "Create" -> changes.Create[i]
      [] list = "Update" -> changes.UpdateOld[i]
      [] list = "Delete" -> changes.Delete[i]
      [] OTHER -> NoEndpoint

\* the kind is not in the supported set, in any letter case
UnsupportedKind(p) == p.RecordType \notin KindSpellings

\* C23: createRecord and deleteRecord on a record whose kind is not in the supported
\* set, and updateRecord on a pair whose old record's kind is not in the supported
\* set, make no remote call at all (no list, create or delete) and return nil.
C23_UnsupportedSkipped ==
    Applying
        => /\ \A k \in 1..Len(applied) :
                 UnsupportedKind(DecidingRecord(applied[k].list, applied[k].i))
                    => applied[k].err = Nil
           /\ \A c \in 1..Len(calls) :
                 ~UnsupportedKind(DecidingRecord(calls[c].entry.list, calls[c].entry.i))
           /\ phase = "done"
                 => \A list \in {"Create", "Update", "Delete"} :
                       \A i \in 1..EntriesOf(changes, list) :
                          UnsupportedKind(DecidingRecord(list, i))
                             => \E k \in 1..Len(applied) :
                                   applied[k].list = list /\ applied[k].i = i

\* an update of an ownership record has been skipped and the pass has gone on to
\* delete the row of an address record
C23_Witness ==
    /\ Applying /\ phase = "done" /\ result = Nil
    /\ Len(changes.UpdateOld) = 1 /\ Len(changes.Delete) = 1
    /\ changes.UpdateOld[1].RecordType = "TXT"
    /\ changes.Delete[1].RecordType = "A"
    /\ Len(applied) = 2 /\ applied[1].list = "Update" /\ applied[1].err = Nil
    /\ CallsFor("Update") = {}
    /\ CallsTo("Delete") # {}
    /\ Len(store) < Len(store0)

RECURSIVE CleanRun(_, _, _, _)
\* ApplyChanges on changeset ch, standing at x, run to its return against store s
\* (next fresh id n) with every remote call succeeding at its first attempt: the
\* store and the error at the return
CleanRun(ch, x, s, n) ==
    IF x.phase = "done" THEN [store |-> s, result |-> x.result]
    ELSE LET s2 == CASE ApiOf(x.site) = "Create" ->
                            RemoteCreate(s, n, x.ep.DNSName, x.ep.Targets[x.ti])
                      [] ApiOf(x.site) = "Delete" -> RemoteDelete(s, x.existing.ID)
                      [] OTHER -> s
             n2 == IF ApiOf(x.site) = "Create" THEN n + 1 ELSE n
         IN  CleanRun(ch, ApplyChangesResume(ch, x, Nil, s2), s2, n2)

\* the changeset applied to the store with no failures, from the call on
FailureFree(ch, s) == CleanRun(ch, ApplyChangesFrom(ch, 1, 1, <<>>, <<>>), s, Len(s) + 1)

\* every failed invocation failed with a retryable error and was one of at most 3
\* failures in a row of its remote call
OnlyTransientFailures ==
    \A c \in 1..Len(calls) :
        calls[c].err # Nil => (ClaimRetryable(calls[c].err) /\ calls[c].attempt < 3)

\* C24: if during a non-dry-run ApplyChanges every remote call fails at most 3
\* consecutive times with retryable errors before succeeding (failed attempts
\* leaving the store unchanged) and the context is not cancelled, ApplyChanges
\* returns nil and the final store equals the final store of the same changeset run
\* from the same initial store with no failures.
C24_TransientRecovered ==
    (Applying /\ phase = "done" /\ ~cancelled /\ OnlyTransientFailures)
        => /\ result = Nil
           /\ store = FailureFree(changes, store0).store
           /\ FailureFree(changes, store0).result = Nil

\* an update has gone through although its delete call failed three times in a
\* row and its create call once
C24_Witness ==
    /\ Applying /\ phase = "done" /\ ~cancelled /\ OnlyTransientFailures
    /\ \E c \in 1..Len(calls) :
          calls[c].api = "Delete" /\ calls[c].attempt = 2 /\ calls[c].err # Nil
    /\ \E c \in 1..Len(calls) :
          calls[c].api = "Create" /\ calls[c].attempt = 0 /\ calls[c].err # Nil
    /\ waits = <<1, 2, 4, 1>>
    /\ Len(changes.UpdateOld) = 1
    /\ store # store0
    /\ result = Nil

\* the rows of s that bear the name, in list order, as (name, kind, target)
NamedRows(s, name) ==
    LET rows == SelectSeq(s, LAMBDA row : row.Name = name)
    IN  [i \in 1..Len(rows) |->
            [Name |-> rows[i].Name, Type |-> rows[i].Type, Content |-> rows[i].Content]]

\* the markers a record can carry
MarkerChoices == { <<>>, << [Name |-> overwriteAnnotationKey, Value |-> "true"] >> }

\* the records that differ from p at most in the marker, p itself if it bears the name
MarkerVariants(p, name) ==
    IF p.DNSName = name THEN {p}
    ELSE {[p EXCEPT !.ProviderSpecific = m] : m \in MarkerChoices}

\* the lists that differ from q at most in markers of records of other names
ListVariants(q, name) ==
    {v \in [1..Len(q) -> UNION {MarkerVariants(q[i], name) : i \in 1..Len(q)}] :
        \A i \in 1..Len(q) : v[i] \in MarkerVariants(q[i], name)}

\* the changesets that differ from ch at most in markers of records of other names
ChangeSetVariants(ch, name) ==
    {[Create |-> c, UpdateOld |-> uo, UpdateNew |-> un, Delete |-> d] :
        c \in ListVariants(ch.Create, name), uo \in ListVariants(ch.UpdateOld, name),
        un \in ListVariants(ch.UpdateNew, name), d \in ListVariants(ch.Delete, name)}

\* C25: the overwrite decision for a record depends only on that record's own marker:
\* in two runs of ApplyChanges from the same store that differ only in the markers
\* carried by other records with different names, the rows bearing this record's
\* name are the same at the end of both runs.
C25_PerRecordAuthorization ==
    (Applying /\ phase = "done")
        => \A name \in Names :
              \A other \in ChangeSetVariants(changes, name) :
                 NamedRows(store, name) = NamedRows(FailureFree(other, store0).store, name)

\* of two records created over existing rows of their names, the one without the
\* marker has left its row alone and the one with the marker has replaced its row
C25_Witness ==
    /\ Applying /\ phase = "done" /\ result = Nil
    /\ Len(changes.Create) = 2
    /\ changes.Create[1].DNSName = "a.example.com" /\ NotAuthorized(changes.Create[1])
    /\ changes.Create[2].DNSName = "b.example.com" /\ ~NotAuthorized(changes.Create[2])
    /\ changes.Create[1].Targets = <<"2.2.2.2">> /\ changes.Create[2].Targets = <<"2.2.2.2">>
    /\ NamedRows(store0, "a.example.com")
          = <<[Name |-> "a.example.com", Type |-> "A", Content |-> "1.1.1.1"]>>
    /\ NamedRows(store0, "b.example.com")
          = <<[Name |-> "b.example.com", Type |-> "A", Content |-> "1.1.1.1"]>>
    /\ NamedRows(store, "a.example.com") = NamedRows(store0, "a.example.com")
    /\ NamedRows(store, "b.example.com")
          = <<[Name |-> "b.example.com", Type |-> "A", Content |-> "2.2.2.2"]>>

RECURSIVE SumOf(_)
\* the sum of a list of numbers
SumOf(q) == IF q = <<>> THEN 0 ELSE Head(q) + SumOf(Tail(q))

\* the delays between attempts, in seconds, as the claims give them
Schedule == <<1, 2, 4>>

\* C26: in a run where all 4 attempts fail with retryable errors and the context is
\* not cancelled, retryWithBackoff waits 1s before attempt 2, 2s before attempt 3 and
\* 4s before attempt 4 (7s of delay in total), waits before no first attempt and
\* waits no delay after the 4th attempt.
C26_BackoffSchedule ==
    Called("retryWithBackoff")
        => /\ calls = <<>> => (waits = <<>> /\ rpc = "attempt")
           /\ Len(waits) <= 3
           /\ \A i \in 1..Len(waits) : waits[i] = Schedule[i]
           /\ calls # <<>> => Len(waits) \in {Len(calls) - 1, Len(calls)}
           /\ Len(calls) = 4 => (Len(waits) = 3 /\ rpc = "attempt")
           /\ (/\ phase = "done" /\ ~cancelled /\ Len(calls) = 4
               /\ \A i \in 1..4 : ClaimRetryable(calls[i].err))
                 => (waits = <<1, 2, 4>> /\ SumOf(waits) = 7)

\* all four attempts have failed with a retryable error, the same every time, and
\* the call has returned it
C26_Witness ==
    /\ Returned("retryWithBackoff")
    /\ ~cancelled
    /\ Len(calls) = 4
    /\ \A i \in 1..4 : calls[i].err = ApiError(502)
    /\ SumOf(waits) = 7
    /\ result = ApiError(502)

\* the config is nil or lacks the API key or the profile ID
Incomplete(cfg) == cfg = NilConfig \/ cfg.APIKey = "" \/ cfg.ProfileID = ""

\* the connection test has been run and has failed
ConnectionTestFailed == \E c \in 1..Len(calls) : FinalFailure(c)

\* C27 as stated: NewProvider returns an error when the config is nil, the API key is
\* empty or the profile ID is empty, and otherwise returns a provider holding that
\* config; a connection test that fails at start-up does not make NewProvider return
\* an error, and the connection test is not run when DryRun is set.
C27_Original ==
    Returned("NewProvider")
        => /\ Incomplete(arg) => (result # Nil /\ out = NilProvider)
           /\ ~Incomplete(arg) => (result = Nil /\ out = ProviderOf(arg))
           /\ ConnectionTestFailed => result = Nil
           /\ (arg # NilConfig /\ arg.DryRun) => calls = <<>>

\* C27 amended: NewProvider returns an error when the config is nil, the API key is
\* empty, the profile ID is empty or the SDK client cannot be built from the config
\* (a custom base URL the SDK rejects), with no remote call made, and otherwise
\* returns a provider holding that config and a client; a connection test that fails
\* at start-up does not make NewProvider return an error (a warning is logged), and
\* the connection test is not run when DryRun is set.
C27_Construction ==
    (opName = "NewProvider" /\ phase \in {"running", "done"})
        => /\ (Incomplete(arg) \/ SdkNew(arg.BaseURL) # Nil)
                 => (phase = "done" /\ result # Nil /\ out = NilProvider /\ calls = <<>>)
           /\ (phase = "done" /\ ~Incomplete(arg) /\ SdkNew(arg.BaseURL) = Nil)
                 => (result = Nil /\ out = ProviderOf(arg))
           /\ (phase = "done" /\ ConnectionTestFailed)
                 => (result = Nil /\ out = ProviderOf(arg) /\ diag # <<>>)
           /\ (arg # NilConfig /\ arg.DryRun) => calls = <<>>
           /\ (phase = "done" /\ result = Nil /\ ~arg.DryRun) => calls # <<>>
           /\ store = store0

\* the connection test has failed at its list call and NewProvider has returned
\* the provider
C27_Witness ==
    /\ Returned("NewProvider")
    /\ ~Incomplete(arg) /\ ~arg.DryRun
    /\ arg.BaseURL = "https://nextdns.example.org"
    /\ Len(calls) = 1 /\ calls[1].api = "List" /\ calls[1].err = ApiError(404)
    /\ ConnectionTestFailed
    /\ result = Nil /\ out = ProviderOf(arg)

\* Start is at its select: both servers have been started
ServersStarted == opName = "Start" /\ phase = "running" /\ server.at = "select"

C29_BoundedRetry ==
    /\ [](Called("retryWithBackoff") => (Len(calls) <= 4 /\ Len(waits) <= 3))
    /\ (opName = "retryWithBackoff" /\ phase = "running")
          ~> (opName = "retryWithBackoff" /\ phase = "done")

\* retryWithBackoff has returned after four invocations and three delays, the last
\* invocation having failed with an error that is not retryable
C29_Witness ==
    /\ Returned("retryWithBackoff")
    /\ Len(calls) = 4 /\ Len(waits) = 3
    /\ calls[1].err = ApiError(429) /\ calls[2].err = ApiError(500)
    /\ calls[3].err = ApiError(504) /\ calls[4].err = ApiError(400)
    /\ result = ApiError(400)

\* the first of a set of positions
First(hits) == CHOOSE i \in hits : \A j \in hits : i <= j

\* C30: FindRewriteByName returns, with found = true, the first row in list order
\* whose name and type both equal the arguments exactly, ignoring any later matching
\* rows; when no row matches it returns (nil, false, nil); when the list call fails it
\* returns that error with found = false.
C30_Lookup ==
    Returned("FindRewriteByName")
        => LET hits == RowsFor(store, ep.DNSName, ep.RecordType)
           IN  /\ store = store0
               /\ CallsTo("Create") = {} /\ CallsTo("Delete") = {}
               /\ (~LastCallFailed /\ hits # {})
                     => (out.kind = "true" /\ existing = store[First(hits)] /\ result = Nil)
               /\ (~LastCallFailed /\ hits = {})
                     => (out.kind = "false" /\ existing = NoRow /\ result = Nil)
               /\ LastCallFailed
                     => /\ out.kind = "false" /\ existing = NoRow
                        /\ result = Wrap("failed to list rewrites", calls[Len(calls)].err)

\* of two rows of the name and kind asked for, the lookup has returned the first
C30_Witness ==
    /\ Returned("FindRewriteByName")
    /\ Len(store) = 2
    /\ RowsFor(store, ep.DNSName, ep.RecordType) = {1, 2}
    /\ store[1].Content # store[2].Content
    /\ out.kind = "true" /\ existing = store[1]
    /\ result = Nil

\* the store as the operation had left it when it came to target t
StoreBefore(t) == Replay(store0, SelectSeq(calls, LAMBDA c : c.target < t))

\* the delete calls of the overwrites of createRecord that have returned an error
FailedOverwriteDeletes == {c \in CallsTo("Delete") : FinalFailure(c)}

\* the create calls of the overwrites of createRecord that have returned an error:
\* the delete call for the same target had succeeded
FailedOverwriteCreates ==
    {c \in CallsTo("Create") :
        /\ FinalFailure(c)
        /\ \E d \in CallsTo("Delete") : calls[d].target = calls[c].target /\ calls[d].err = Nil}

\* C31: failure on the authorized-overwrite path of createRecord: if deleting the
\* existing row fails, no create call is made for the target, the store is as it was
\* when the target was taken up and createRecord returns an error; if the delete
\* succeeds and the create fails, createRecord returns an error and the store has
\* lost the existing row without a replacement; in both cases the record's remaining
\* targets are not processed.
C31_OverwriteFailure ==
    Called("createRecord")
        => /\ \A c \in FailedOverwriteDeletes :
                 /\ phase = "done" /\ result # Nil
                 /\ \A k \in CallsTo("Create") : calls[k].target # calls[c].target
                 /\ calls[c].id \in Ids(store)
                 /\ store = StoreBefore(calls[c].target)
                 /\ calls[c].target = 1 => (store = store0 /\ CallsTo("Create") = {})
                 /\ \A k \in 1..Len(calls) : calls[k].target <= calls[c].target
           /\ \A c \in FailedOverwriteCreates :
                 LET d == CHOOSE d \in CallsTo("Delete") :
                             calls[d].target = calls[c].target /\ calls[d].err = Nil
                 IN  /\ phase = "done" /\ result # Nil
                     /\ calls[d].id \in Ids(StoreBefore(calls[c].target))
                     /\ calls[d].id \notin Ids(store)
                     /\ store = RemoteDelete(StoreBefore(calls[c].target), calls[d].id)
                     /\ \A k \in 1..Len(calls) : calls[k].target <= calls[c].target

\* the overwrite for the first of two targets has deleted the row and failed to
\* create its replacement
C31_Witness ==
    /\ Returned("createRecord") /\ result # Nil
    /\ Len(ep.Targets) = 2
    /\ FailedOverwriteCreates # {}
    /\ calls[Len(calls)].target = 1
    /\ Len(store) = Len(store0) - 1

\* the overwrite for a target has failed to delete the row
C31_WitnessDelete ==
    /\ Returned("createRecord") /\ result # Nil
    /\ FailedOverwriteDeletes # {}
    /\ store = store0 /\ store # <<>>

\* the entries of the changeset
Entries == Len(changes.Create) + Len(changes.UpdateOld) + Len(changes.Delete)

\* ApplyChanges has stopped at the entry it worked on last: no remote call was made
\* for an entry behind it
StoppedAtLastApplied ==
    /\ applied # <<>>
    /\ applied[Len(applied)].err # Nil
    /\ \A c \in 1..Len(calls) :
          UpTo(calls[c], applied[Len(applied)].list, applied[Len(applied)].i)

\* C32 as stated: if the context is cancelled while a non-dry-run ApplyChanges is
\* running, ApplyChanges returns an error, the entries not yet reached are not
\* processed, and the mutations already applied stay in the store.
C32_Original ==
    (Applying /\ cancelled /\ phase = "done")
        => /\ result # Nil
           /\ StoppedAtLastApplied
           /\ store = Replay(store0, calls)

\* C32 amended: if the context is cancelled while a non-dry-run ApplyChanges is
\* running, no attempt of any remote call is started after the cancellation, and once
\* the retry policy has observed it (before an attempt or in a delay) no invocation
\* is made, the store stays as it is and ApplyChanges returns an error; ApplyChanges
\* returns nil only when the cancellation came while its last remote call was in
\* flight and that call succeeded.  When it returns an error the entries not yet
\* reached are not processed, and in every case the mutations already applied stay
\* in the store.
C32_Cancellation ==
    /\ [][(Applying /\ cancelled)
             => /\ ~(rpc # "invoke" /\ rpc' = "invoke")
                /\ rpc # "invoke"
                      => /\ calls' = calls
                         /\ store' = store
                         /\ (phase = "running" /\ phase' = "done") => result' # Nil]_vars
    /\ []((Applying /\ cancelled /\ phase = "done")
             => /\ store = Replay(store0, calls)
                /\ result # Nil => StoppedAtLastApplied
                /\ result = Nil => (calls # <<>> /\ calls[Len(calls)].err = Nil))

\* the context was cancelled during a delay of the create leg of an update: the row
\* of the old record is gone, the entry behind the update was not reached
C32_Witness ==
    /\ Applying /\ cancelled /\ phase = "done"
    /\ result # Nil
    /\ waits # <<>>
    /\ Entries = 2 /\ Len(applied) = 1 /\ applied[1].list = "Update"
    /\ store # store0
    /\ store = Replay(store0, calls)

\* the i-th invocation is the first attempt of a remote call
FirstAttempt(i) == calls[i].attempt = 0

\* the create calls UpdateRewrite has made: the delete call for the same target
\* came before
OverwriteCreates ==
    {c \in CallsTo("Create") :
        \E d \in CallsTo("Delete") : d < c /\ calls[d].target = calls[c].target}

\* C33: retry is applied per remote call: each list, create and delete call gets its
\* own budget of at most 4 attempts (its attempts are counted from the first on,
\* whatever came before); FindRewriteByName retries only through its inner list call
\* (a list call that has returned an error is followed by no other call); in
\* UpdateRewrite the first create attempt happens only after the delete call has
\* returned success, and the failed delete attempts do not reduce the create call's
\* budget.
C33_RetryPerCall ==
    (Called("createRecord") \/ Called("deleteRecord"))
        => /\ \A i \in 1..Len(calls) :
                 /\ calls[i].attempt <= maxRetryAttempts
                 /\ calls[i].attempt + 1 <= 4
                 /\ ~FirstAttempt(i)
                       => /\ i > 1
                          /\ calls[i - 1].api = calls[i].api
                          /\ calls[i - 1].target = calls[i].target
                          /\ calls[i - 1].attempt + 1 = calls[i].attempt
                          /\ calls[i - 1].err # Nil /\ isRetryableError(calls[i - 1].err)
                 /\ (FirstAttempt(i) /\ i > 1) => calls[i - 1].err = Nil
           /\ \A c \in OverwriteCreates :
                 FirstAttempt(c)
                    => /\ calls[c - 1].api = "Delete"
                       /\ calls[c - 1].target = calls[c].target
                       /\ calls[c - 1].err = Nil
           /\ \A c \in CallsTo("Create") :
                 \E k \in 1..c : /\ FirstAttempt(k)
                                 /\ \A j \in k..c : calls[j].api = "Create"
                                 /\ calls[c].attempt = c - k

\* in an overwrite the delete call has failed once before it succeeded, and the
\* create call behind it has then made all its 4 attempts
C33_Witness ==
    /\ Returned("createRecord") /\ result = Nil
    /\ \E d \in CallsTo("Delete") : calls[d].err # Nil
    /\ \E c \in OverwriteCreates : calls[c].attempt = 3 /\ calls[c].err = Nil

RECURSIVE CleanTrace(_, _, _, _, _)
\* ApplyChanges on changeset ch, standing at x, run to its return against store s
\* (next fresh id n) with every remote call succeeding at its first attempt: the
\* remote calls it makes, each with the entry and the target it is made for and,
\* for the list call of a lookup, whether the lookup finds a row
CleanTrace(ch, x, s, n, seen) ==
    IF x.phase = "done" THEN seen
    ELSE LET s2 == CASE ApiOf(x.site) = "Create" ->
                            RemoteCreate(s, n, x.ep.DNSName, x.ep.Targets[x.ti])
                      [] ApiOf(x.site) = "Delete" -> RemoteDelete(s, x.existing.ID)
                      [] OTHER -> s
             n2 == IF ApiOf(x.site) = "Create" THEN n + 1 ELSE n
             step == [entry |-> x.entry, target |-> x.ti, site |-> x.site,
                      found |-> /\ x.site = "find"
                                /\ FindRewriteByName(s, x.ep.DNSName, x.ep.RecordType).found]
         IN  CleanTrace(ch, ApplyChangesResume(ch, x, Nil, s2), s2, n2, Append(seen, step))

\* the remote calls of the changeset applied to the store for real
RealRun(ch, s) == CleanTrace(ch, ApplyChangesFrom(ch, 1, 1, <<>>, <<>>), s, Len(s) + 1, <<>>)

\* the steps of a real run made for the i-th entry of the Create list
CreateSteps(run, i) ==
    {k \in 1..Len(run) : run[k].entry.list = "Create" /\ run[k].entry.i = i}

\* the real run finds an existing row for the i-th Create entry
RealFinds(run, i) == \E k \in CreateSteps(run, i) : run[k].found

\* the real run replaces a row for the i-th Create entry
RealReplaces(run, i) == \E k \in CreateSteps(run, i) : run[k].site = "updateDelete"

\* the real run finds a row for the i-th Create entry and leaves it in place
RealSkips(run, i) ==
    \E k \in CreateSteps(run, i) :
        /\ run[k].found
        /\ ~\E j \in CreateSteps(run, i) :
               run[j].site = "updateDelete" /\ run[j].target = run[k].target

\* a dry run of a provider with a client has returned, the list call of its
\* preview having succeeded
Previewed ==
    /\ Previewing /\ phase = "done" /\ config.Client
    /\ calls # <<>> /\ calls[Len(calls)].err = Nil

\* C34 as stated: for each Create entry of a changeset, the dry-run preview reports a
\* conflict exactly when a non-dry-run ApplyChanges of the same changeset from the
\* same store would find an existing row for that entry, and it reports overwrite
\* "allowed" exactly when that run would replace the row and "blocked" exactly when
\* that run would skip the entry.
C34_PreviewAgrees ==
    Previewed
        => LET run == RealRun(changes, store0)
           IN  \A i \in 1..Len(changes.Create) :
                  /\ diag[i].conflict <=> RealFinds(run, i)
                  /\ diag[i].overwrite = "allowed (annotation present)" <=> RealReplaces(run, i)
                  /\ diag[i].overwrite = "blocked (annotation not present)" <=> RealSkips(run, i)

\* updateRecord has just returned nil for the i-th update: it is the record
\* operation that returned last and no remote call has been made since
UpdateJustReturnedNil(i) ==
    /\ applied # <<>>
    /\ applied[Len(applied)] = [list |-> "Update", i |-> i, err |-> Nil]
    /\ calls # <<>>
    /\ calls[Len(calls)].entry.list = "Update" /\ calls[Len(calls)].entry.i = i

\* the old and the new record of the i-th update have one target each, the same
\* name and the same supported kind
SingleTargetUpdate(i) ==
    /\ Len(changes.UpdateOld[i].Targets) = 1 /\ Len(changes.UpdateNew[i].Targets) = 1
    /\ changes.UpdateOld[i].DNSName = changes.UpdateNew[i].DNSName
    /\ changes.UpdateOld[i].RecordType = changes.UpdateNew[i].RecordType
    /\ changes.UpdateOld[i].RecordType \in SupportedKinds

\* C35 as stated: for single-target old and new records with the same name and the
\* same supported kind, whenever updateRecord returns nil the store holds a row with
\* that name and kind whose target is the new record's target; this includes the
\* case where no row for the old record existed before the call.
C35_UpdatePostcondition ==
    Applying
        => \A i \in 1..Len(changes.UpdateOld) :
              (SingleTargetUpdate(i) /\ UpdateJustReturnedNil(i))
                 => \E r \in RowsFor(store, changes.UpdateNew[i].DNSName,
                                     changes.UpdateNew[i].RecordType) :
                       store[r].Content = changes.UpdateNew[i].Targets[1]

\* the store holds at most one row per name and kind
UniquePerNameAndKind(s) ==
    \A i, j \in 1..Len(s) : (i # j) => ~(s[i].Name = s[j].Name /\ s[i].Type = s[j].Type)

\* the remote store files the rows of the record under the kind of the record
FiledUnderRequestedKind(p) == \A t \in 1..Len(p.Targets) : RemoteType(p.Targets[t]) = p.RecordType

\* C36: if the store holds at most one row per (name, kind) when a record operation
\* is called and the remote store records every created row under the requested
\* kind, the store holds at most one row per (name, kind) at every point of the
\* operation and when it has returned, with or without an error; so it does after
\* any sequence of createRecord, deleteRecord and updateRecord calls (a deleteRecord
\* followed by a createRecord) whenever no call is in progress.
C36_UniquenessPreserved ==
    ((Called("createRecord") \/ Called("deleteRecord"))
        /\ UniquePerNameAndKind(store0) /\ FiledUnderRequestedKind(ep))
        => UniquePerNameAndKind(store)

\* the second operation of a sequence, a createRecord on a record with two targets
\* and the overwrite annotation, has returned after the first had failed: the store
\* had one row of the name and kind and has one
C36_Witness ==
    /\ Returned("createRecord") /\ result = Nil
    /\ Len(returned) = 1 /\ returned[1] # Nil
    /\ MarkerValues(ep) = {"true"}
    /\ UniquePerNameAndKind(store0) /\ FiledUnderRequestedKind(ep)
    /\ Cardinality(RowsFor(store0, ep.DNSName, ep.RecordType)) = 1
    /\ Cardinality(RowsFor(store, ep.DNSName, ep.RecordType)) = 1
    /\ store # store0

\* the store as it was when the c-th invocation was made
StoreAt(c) == Replay(store0, SubSeq(calls, 1, c - 1))

\* the names of the records of the changeset
ChangeSetNames ==
    {changes.Create[i].DNSName : i \in 1..Len(changes.Create)}
        \cup {changes.UpdateOld[i].DNSName : i \in 1..Len(changes.UpdateOld)}
        \cup {changes.UpdateNew[i].DNSName : i \in 1..Len(changes.UpdateNew)}
        \cup {changes.Delete[i].DNSName : i \in 1..Len(changes.Delete)}

\* the rows of s whose name is none of the names
OtherRows(s, names) == SelectSeq(s, LAMBDA row : row.Name \notin names)

\* C37: createRecord, updateRecord and deleteRecord applied to a record create only
\* rows that carry the record's name and delete only rows whose name and kind equal
\* the record's (for updateRecord: the old record's in its deleteRecord, the new
\* record's in its createRecord); every row with a different name is unchanged by
\* the call.
C37_Frame ==
    Applying
        => /\ store = Replay(store0, calls)
           /\ \A c \in 1..Len(calls) :
                 LET p == EntryEndpoint(changes, calls[c].entry)
                 IN  /\ calls[c].api = "Create" => calls[c].name = p.DNSName
                     /\ (calls[c].api = "Delete" /\ calls[c].err = Nil)
                           => \A r \in 1..Len(StoreAt(c)) :
                                 StoreAt(c)[r].ID = calls[c].id
                                    => /\ StoreAt(c)[r].Name = p.DNSName
                                       /\ StoreAt(c)[r].Type = p.RecordType
                     /\ OtherRows(Replay(store0, SubSeq(calls, 1, c)), {p.DNSName})
                           = OtherRows(StoreAt(c), {p.DNSName})
           /\ OtherRows(store, ChangeSetNames) = OtherRows(store0, ChangeSetNames)

\* an update of a record has deleted its row and created the new one, next to a row
\* of another name that is still there
C37_Witness ==
    /\ Applying /\ phase = "done" /\ result = Nil
    /\ Len(changes.UpdateOld) = 1 /\ Entries = 1
    /\ CallsTo("Delete") # {} /\ CallsTo("Create") # {}
    /\ OtherRows(store0, ChangeSetNames) # <<>>
    /\ OtherRows(store, ChangeSetNames) = OtherRows(store0, ChangeSetNames)
    /\ store # store0

\* C38 as stated: for a record whose kind differs from a supported kind only in
\* letter case ("a"), which the supported-kind check accepts, createRecord without
\* authorization adds no row when the store already holds a row with the same name
\* and the same kind in upper case.
C38_CaseInsensitiveProtection ==
    (/\ Called("createRecord")
     /\ ep.RecordType = "a" /\ isSupportedRecordType(ep.RecordType)
     /\ NotAuthorized(ep)
     /\ RowsFor(store0, ep.DNSName, "A") # {})
        => /\ Ids(store) \subseteq Ids(store0)
           /\ CallsTo("Create") = {}

\* C39 as stated: with a non-empty domain allow-list configured, a non-dry-run
\* ApplyChanges never creates or deletes a remote row whose name does not match the
\* allow-list, whatever records the changeset contains.
C39_AllowListAtApply ==
    (Applying /\ Len(config.DomainFilter) > 0)
        => /\ \A r \in 1..Len(store) :
                 store[r].ID \notin Ids(store0)
                    => matchesDomainFilter(config.DomainFilter, store[r].Name)
           /\ \A r \in 1..Len(store0) :
                 store0[r].ID \notin Ids(store)
                    => matchesDomainFilter(config.DomainFilter, store0[r].Name)

\* the name is the domain, leading dot stripped, or a name below it
WithinDomain(name, domain) ==
    \/ name = Undotted(domain)
    \/ HasSuffix(name, <<".">> \o Undotted(domain))

\* C40: with a non-empty allow-list AdjustEndpoints keeps a name only if it equals
\* an allow-list domain, leading dot stripped, or ends with a dot followed by that
\* domain; for the allow-list [example.com] the name badexample.com is dropped.
C40_LabelBoundaries ==
    (opName = "AdjustEndpoints" /\ phase = "done" /\ Len(config.DomainFilter) > 0)
        => \A i \in 1..Len(out.eps) :
              \E j \in 1..Len(config.DomainFilter) :
                 WithinDomain(out.eps[i].DNSName, config.DomainFilter[j])

====
